---- MODULE Spec2Model ----
(***************************************************************************)
(* Load-balancing core of the proxy: fast weighted least-connections       *)
(* (src/src/lb_fwlc.c) and fast weighted round-robin (src/src/lb_fwrr.c).  *)
(* One backend with NSrv servers in configured order; server i's ->next is *)
(* server i+1, and 0 stands for the NULL pointer.                          *)
(***************************************************************************)
EXTENDS Integers, Sequences, FiniteSets, TLC

\* ---------------------------------------------------------------- bounds
NSrv == 2
MaxServed == 1
MaxPend == 1
MaxPicks == 8
MaxNotify == 2
MaxRound == 12
MaxDowns == 2
NFd == 2
MaxCreated == 1
MaxPollEvents == 1
NPorts == 2
NPx == 2
NLi == 2
MaxStarts == 2
MaxGrace == 2
MaxNow == 3
MaxWait == 1
MaxHandles == 4
MaxRekeys == 3
MaxKeyPicks == 4

\* ------------------------------------------------------ program constants
BE_WEIGHT_SCALE == 16
SRV_EWGHT_MAX == 256
SRV_UWGHT_RANGE == 256
MAX_DELAY_MS == 1000
\* 2^32 / BE_WEIGHT_SCALE: what the (unsigned) cast of a negative int adds to
\* the quotient of fwrr_queue_srv's tie-break term
U32_OVER_SCALE == 268435456

SRV_RUNNING == "RUNNING"
SRV_BACKUP == "BACKUP"
PR_O_USE_ALL_BK == "USE_ALL_BK"
NULLTREE == "NULL"

Srv == 1..NSrv
NULL == 0

\* configured user weights, configured maxconn values, and the effective
\* weights a later weight change may set
UWeights == {0, 1}
MaxConnPatterns == {[s \in 1..NSrv |-> IF s = NSrv THEN 1 ELSE 0]}
EWeights == {0, 1, 2}

\* the same for a backend whose weights reach the top of the weight range
HeavyUWeights == {1, 128, 255}
HeavyEWeights == {0, 2048, 4080}

\* the servers A, B, C of the selection scenario and the effective weights
\* they may be given
ScnSrv == 1..3
ScnEWeights == {1, 2, 4}

\* the effective weights the servers of a round-robin pool may be given
RoundEWeights == {0, 1, 2, 3}

LCTrees == {"lc_act", "lc_bck"}
RRTrees == {"act_curr", "act_t0", "act_t1", "bck_curr", "bck_t0", "bck_t1"}
TreeNames == LCTrees \cup RRTrees
Groups == {"act", "bck"}
Hooks == {"up", "down", "update"}

VARIABLES
    srv,     \* [Srv -> struct server]: state, eweight, prev_*, served, ...
    px,      \* struct proxy / lbprm: options, algo, srv_act, srv_bck, tot_*, fbck
    tree,    \* [TreeNames -> Seq(Srv)]: the eb32 roots, leftmost node first
    grp,     \* [Groups -> struct fwrr_group]
    last,    \* the last call of get_next_server: its argument and its result
    nnotify, \* how many changes have been notified
    picks,   \* the servers returned by successive select-and-take steps
    fdtab,          \* [Fd -> struct fdtab]: state, spec.e, spec.s1
    spec_list,      \* the speculative I/O list, an array indexed from 0
    nbspec,         \* current size of the spec list
    fd_created,     \* fd creation detector
    last_skipped,   \* _do_poll's static last_skipped
    spec_processed, \* _do_poll's static spec_processed
    epoll,          \* [Fd -> directions]: what the kernel's epoll set watches
    poll,           \* where _do_poll is, and its locals
    hist,           \* what the callbacks and the last kernel wait were given
    kq,             \* ev_kqueue.c: fd_evts, the kernel's filters, the last call
    conn,           \* tcp_connect_server: the socket, the port range, the outcome
    proxies,        \* proxy.c: the proxies, their listeners, the process globals
    pollers         \* the pollers' init, fork and term: pref, handles, arrays

lbvars == <<srv, px, tree, grp, last, nnotify, picks>>
evars == <<fdtab, spec_list, nbspec, fd_created, last_skipped, spec_processed,
           epoll, poll, hist>>
vars == <<lbvars, evars, kq, conn, proxies, pollers>>

\* what the steps of the backend, of the speculative poller, of the kqueue
\* poller, of the connection, of the proxies and of the pollers' life leave
\* alone
rest_lb == <<evars, kq, conn, proxies, pollers>>
rest_ep == <<lbvars, kq, conn, proxies, pollers>>
rest_kq == <<lbvars, evars, conn, proxies, pollers>>
rest_conn == <<lbvars, evars, kq, proxies, pollers>>
rest_proxies == <<lbvars, evars, kq, conn, pollers>>
rest_pollers == <<lbvars, evars, kq, conn, proxies>>

\* the parts of the program that a specification does not run
NoPoller ==
    /\ fdtab = <<>> /\ spec_list = <<>> /\ nbspec = 0 /\ fd_created = 0
    /\ last_skipped = 0 /\ spec_processed = 0 /\ epoll = <<>>
    /\ poll = <<>> /\ hist = <<>>

NoBackend ==
    /\ srv = <<>> /\ px = <<>> /\ tree = <<>> /\ grp = <<>>
    /\ last = <<>> /\ nnotify = 0 /\ picks = <<>>

\* a specification runs the parts named in S
Only(S) ==
    /\ IF "backend" \in S THEN TRUE ELSE NoBackend
    /\ IF "sepoll" \in S THEN TRUE ELSE NoPoller
    /\ IF "kqueue" \in S THEN TRUE ELSE kq = <<>>
    /\ IF "connect" \in S THEN TRUE ELSE conn = <<>>
    /\ IF "proxies" \in S THEN TRUE ELSE proxies = <<>>
    /\ IF "pollers" \in S THEN TRUE ELSE pollers = <<>>

\* the load-balancer state the functions of the two files work on
Cur == [srv |-> srv, px |-> px, tree |-> tree, grp |-> grp]

SetMin(S) == CHOOSE x \in S : \A y \in S : x <= y

\* ----------------------------------------------------------- ordered trees
\* A root holds its nodes, each the lb_node of server .s with its .key, in key
\* order; nodes of equal keys stay in insertion order. The key of a node that
\* is in no tree is dead: every insertion is given the key it sets.
eb32_delete(st, s) ==
    [st EXCEPT !.tree = [t \in TreeNames |-> SelectSeq(st.tree[t], LAMBDA x : x.s # s)]]

eb32_insert(st, root, s, key) ==
    LET q == st.tree[root]
        n == Cardinality({i \in 1..Len(q) : q[i].key <= key})
    IN  [st EXCEPT !.tree[root] =
            SubSeq(q, 1, n) \o <<[s |-> s, key |-> key]>> \o SubSeq(q, n + 1, Len(q))]

eb32_first(st, root) == IF st.tree[root] = <<>> THEN NULL ELSE Head(st.tree[root]).s

\* ------------------------------------------------------- backend helpers
srv_is_usable(state, weight) == weight # 0 /\ SRV_RUNNING \in state

update_backend_weight(st) ==
    IF st.px.srv_act # 0
    THEN [st EXCEPT !.px.tot_weight = st.px.tot_wact, !.px.tot_used = st.px.srv_act]
    ELSE IF st.px.fbck # NULL
    THEN [st EXCEPT !.px.tot_weight = st.srv[st.px.fbck].eweight, !.px.tot_used = 1]
    ELSE [st EXCEPT !.px.tot_weight = st.px.tot_wbck, !.px.tot_used = st.px.srv_bck]

RECURSIVE recount_from(_, _)
recount_from(st, s) ==
    IF s \notin DOMAIN st.srv THEN st
    ELSE IF ~srv_is_usable(st.srv[s].state, st.srv[s].eweight) THEN recount_from(st, s + 1)
    ELSE IF SRV_BACKUP \in st.srv[s].state
    THEN recount_from([st EXCEPT !.px.fbck = IF st.px.srv_bck = 0 /\ PR_O_USE_ALL_BK \notin st.px.options
                                             THEN s ELSE @,
                                 !.px.srv_bck = @ + 1,
                                 !.px.tot_wbck = @ + st.srv[s].eweight], s + 1)
    ELSE recount_from([st EXCEPT !.px.srv_act = @ + 1,
                                 !.px.tot_wact = @ + st.srv[s].eweight], s + 1)

recount_servers(st) ==
    recount_from([st EXCEPT !.px.srv_act = 0, !.px.srv_bck = 0, !.px.tot_wact = 0,
                            !.px.tot_wbck = 0, !.px.fbck = NULL], 1)

srv_dynamic_maxconn(st, s) == st.srv[s].maxconn

\* the saturation test without its "!s->nbpend"
srv_not_saturated_ignores_pending(st, s) ==
    st.srv[s].maxconn = 0 \/ st.srv[s].served < srv_dynamic_maxconn(st, s)

\* the test both get_next_server functions make before they take a server
srv_not_saturated(st, s) ==
    st.srv[s].maxconn = 0
    \/ (st.srv[s].nbpend = 0 /\ st.srv[s].served < srv_dynamic_maxconn(st, s))

\* the do/while of the down hooks without its srv_is_usable test
next_backup_usable_or_not(st, s) ==
    LET c == {t \in DOMAIN st.srv : t > s /\ SRV_BACKUP \in st.srv[t].state}
    IN  IF c = {} THEN NULL ELSE SetMin(c)

\* the do/while of the down hooks: the first usable backup server after s
next_usable_backup(st, s) ==
    LET c == {t \in DOMAIN st.srv : t > s /\ SRV_BACKUP \in st.srv[t].state
                          /\ srv_is_usable(st.srv[t].state, st.srv[t].eweight)}
    IN  IF c = {} THEN NULL ELSE SetMin(c)

\* the do/while of the up hooks finding fbck wherever it is in the list
fbck_follows_anywhere(st, s) == st.px.fbck # s

\* the do/while of the up hooks: does fbck come after s in the server list
fbck_follows(st, s) == st.px.fbck > s

\* the out_update_state label without "srv->prev_eweight = srv->eweight"
refresh_prev_state_only(st, s) ==
    [st EXCEPT !.srv[s].prev_state = st.srv[s].state]

\* the out_update_state label of every hook
refresh_prev(st, s) ==
    [st EXCEPT !.srv[s].prev_state = st.srv[s].state,
               !.srv[s].prev_eweight = st.srv[s].eweight]

unchanged_since_prev(st, s) ==
    st.srv[s].state = st.srv[s].prev_state /\ st.srv[s].eweight = st.srv[s].prev_eweight

\* ------------------------------------------------------------------- FWLC
fwlc_remove_from_tree(st, s) == [st EXCEPT !.srv[s].lb_tree = NULLTREE]

\* fwlc_dequeue_srv that leaves the node in the tree
fwlc_dequeue_srv_keeps_node(st, s) == st

fwlc_dequeue_srv(st, s) == eb32_delete(st, s)

\* fwlc_queue_srv with the key "served * SRV_EWGHT_MAX", not divided by eweight
fwlc_queue_srv_unweighted(st, s) ==
    eb32_insert(st, st.srv[s].lb_tree, s, st.srv[s].served * SRV_EWGHT_MAX)

fwlc_queue_srv(st, s) ==
    eb32_insert(st, st.srv[s].lb_tree, s,
                (st.srv[s].served * SRV_EWGHT_MAX) \div st.srv[s].eweight)

\* fwlc_srv_reposition that leaves the server where it is
fwlc_srv_reposition_skipped(st, s) == st

\* fwlc_srv_reposition without fwlc_dequeue_srv
fwlc_srv_reposition_no_dequeue(st, s) ==
    IF st.srv[s].lb_tree = NULLTREE THEN st
    ELSE fwlc_queue_srv(st, s)

fwlc_srv_reposition(st, s) ==
    IF st.srv[s].lb_tree = NULLTREE THEN st
    ELSE fwlc_queue_srv(fwlc_dequeue_srv(st, s), s)

\* fwlc_set_server_status_down without "tot_wbck -= .." / "tot_wact -= .."
fwlc_set_server_status_down_keeps_weight(st, s) ==
    LET sv == st.srv[s] IN
    IF unchanged_since_prev(st, s) THEN st
    ELSE IF srv_is_usable(sv.state, sv.eweight) THEN refresh_prev(st, s)
    ELSE IF ~srv_is_usable(sv.prev_state, sv.prev_eweight)
    THEN refresh_prev(update_backend_weight(st), s)
    ELSE LET st1 == IF SRV_BACKUP \in sv.state
                    THEN [st EXCEPT !.px.srv_bck = @ - 1,
                                    !.px.fbck = IF s = st.px.fbck
                                                THEN next_usable_backup(st, s) ELSE @]
                    ELSE [st EXCEPT !.px.srv_act = @ - 1]
             st2 == fwlc_remove_from_tree(fwlc_dequeue_srv(st1, s), s)
         IN  refresh_prev(update_backend_weight(st2), s)

\* fwlc_set_server_status_down without the search for another first backup
fwlc_set_server_status_down_keeps_fbck(st, s) ==
    LET sv == st.srv[s] IN
    IF unchanged_since_prev(st, s) THEN st
    ELSE IF srv_is_usable(sv.state, sv.eweight) THEN refresh_prev(st, s)
    ELSE IF ~srv_is_usable(sv.prev_state, sv.prev_eweight)
    THEN refresh_prev(update_backend_weight(st), s)
    ELSE LET st1 == IF SRV_BACKUP \in sv.state
                    THEN [st EXCEPT !.px.tot_wbck = @ - sv.prev_eweight,
                                    !.px.srv_bck = @ - 1]
                    ELSE [st EXCEPT !.px.tot_wact = @ - sv.prev_eweight,
                                    !.px.srv_act = @ - 1]
             st2 == fwlc_remove_from_tree(fwlc_dequeue_srv(st1, s), s)
         IN  refresh_prev(update_backend_weight(st2), s)

\* fwlc_set_server_status_down without fwlc_dequeue_srv
fwlc_set_server_status_down_keeps_node(st, s) ==
    LET sv == st.srv[s] IN
    IF unchanged_since_prev(st, s) THEN st
    ELSE IF srv_is_usable(sv.state, sv.eweight) THEN refresh_prev(st, s)
    ELSE IF ~srv_is_usable(sv.prev_state, sv.prev_eweight)
    THEN refresh_prev(update_backend_weight(st), s)
    ELSE LET st1 == IF SRV_BACKUP \in sv.state
                    THEN [st EXCEPT !.px.tot_wbck = @ - sv.prev_eweight,
                                    !.px.srv_bck = @ - 1,
                                    !.px.fbck = IF s = st.px.fbck
                                                THEN next_usable_backup(st, s) ELSE @]
                    ELSE [st EXCEPT !.px.tot_wact = @ - sv.prev_eweight,
                                    !.px.srv_act = @ - 1]
             st2 == fwlc_remove_from_tree(st1, s)
         IN  refresh_prev(update_backend_weight(st2), s)

fwlc_set_server_status_down(st, s) ==
    LET sv == st.srv[s] IN
    IF unchanged_since_prev(st, s) THEN st
    ELSE IF srv_is_usable(sv.state, sv.eweight) THEN refresh_prev(st, s)
    ELSE IF ~srv_is_usable(sv.prev_state, sv.prev_eweight)
    THEN refresh_prev(update_backend_weight(st), s)
    ELSE LET st1 == IF SRV_BACKUP \in sv.state
                    THEN [st EXCEPT !.px.tot_wbck = @ - sv.prev_eweight,
                                    !.px.srv_bck = @ - 1,
                                    !.px.fbck = IF s = st.px.fbck
                                                THEN next_usable_backup(st, s) ELSE @]
                    ELSE [st EXCEPT !.px.tot_wact = @ - sv.prev_eweight,
                                    !.px.srv_act = @ - 1]
             st2 == fwlc_remove_from_tree(fwlc_dequeue_srv(st1, s), s)
         IN  refresh_prev(update_backend_weight(st2), s)

\* fwlc_set_server_status_up without "p->srv_act++"
fwlc_set_server_status_up_no_count(st, s) ==
    LET sv == st.srv[s] IN
    IF unchanged_since_prev(st, s) THEN st
    ELSE IF ~srv_is_usable(sv.state, sv.eweight) THEN refresh_prev(st, s)
    ELSE IF srv_is_usable(sv.prev_state, sv.prev_eweight)
    THEN refresh_prev(update_backend_weight(st), s)
    ELSE LET st1 == IF SRV_BACKUP \in sv.state
                    THEN [st EXCEPT !.srv[s].lb_tree = "lc_bck",
                                    !.px.tot_wbck = @ + sv.eweight,
                                    !.px.srv_bck = @ + 1,
                                    !.px.fbck = IF PR_O_USE_ALL_BK \in st.px.options THEN @
                                                ELSE IF @ = NULL THEN s
                                                ELSE IF fbck_follows(st, s) THEN s ELSE @]
                    ELSE [st EXCEPT !.srv[s].lb_tree = "lc_act",
                                    !.px.tot_wact = @ + sv.eweight]
             st2 == fwlc_queue_srv(st1, s)
         IN  refresh_prev(update_backend_weight(st2), s)

fwlc_set_server_status_up(st, s) ==
    LET sv == st.srv[s] IN
    IF unchanged_since_prev(st, s) THEN st
    ELSE IF ~srv_is_usable(sv.state, sv.eweight) THEN refresh_prev(st, s)
    ELSE IF srv_is_usable(sv.prev_state, sv.prev_eweight)
    THEN refresh_prev(update_backend_weight(st), s)
    ELSE LET st1 == IF SRV_BACKUP \in sv.state
                    THEN [st EXCEPT !.srv[s].lb_tree = "lc_bck",
                                    !.px.tot_wbck = @ + sv.eweight,
                                    !.px.srv_bck = @ + 1,
                                    !.px.fbck = IF PR_O_USE_ALL_BK \in st.px.options THEN @
                                                ELSE IF @ = NULL THEN s
                                                ELSE IF fbck_follows(st, s) THEN s ELSE @]
                    ELSE [st EXCEPT !.srv[s].lb_tree = "lc_act",
                                    !.px.tot_wact = @ + sv.eweight,
                                    !.px.srv_act = @ + 1]
             st2 == fwlc_queue_srv(st1, s)
         IN  refresh_prev(update_backend_weight(st2), s)

\* fwlc_update_server_weight leaving a server that stays usable where it is
fwlc_update_server_weight_keeps_node(st, s) ==
    LET sv == st.srv[s]
        old_state == srv_is_usable(sv.prev_state, sv.prev_eweight)
        new_state == srv_is_usable(sv.state, sv.eweight)
    IN
    IF unchanged_since_prev(st, s) THEN st
    ELSE IF ~old_state /\ ~new_state THEN refresh_prev(st, s)
    ELSE IF ~old_state /\ new_state THEN fwlc_set_server_status_up(st, s)
    ELSE IF old_state /\ ~new_state THEN fwlc_set_server_status_down(st, s)
    ELSE LET st2 == IF SRV_BACKUP \in sv.state
                    THEN [st EXCEPT !.px.tot_wbck = @ + sv.eweight - sv.prev_eweight,
                                    !.srv[s].lb_tree = "lc_bck"]
                    ELSE [st EXCEPT !.px.tot_wact = @ + sv.eweight - sv.prev_eweight,
                                    !.srv[s].lb_tree = "lc_act"]
         IN  refresh_prev(update_backend_weight(st2), s)

fwlc_update_server_weight(st, s) ==
    LET sv == st.srv[s]
        old_state == srv_is_usable(sv.prev_state, sv.prev_eweight)
        new_state == srv_is_usable(sv.state, sv.eweight)
    IN
    IF unchanged_since_prev(st, s) THEN st
    ELSE IF ~old_state /\ ~new_state THEN refresh_prev(st, s)
    ELSE IF ~old_state /\ new_state THEN fwlc_set_server_status_up(st, s)
    ELSE IF old_state /\ ~new_state THEN fwlc_set_server_status_down(st, s)
    ELSE LET st1 == IF sv.lb_tree # NULLTREE THEN fwlc_dequeue_srv(st, s) ELSE st
             st2 == IF SRV_BACKUP \in sv.state
                    THEN [st1 EXCEPT !.px.tot_wbck = @ + sv.eweight - sv.prev_eweight,
                                     !.srv[s].lb_tree = "lc_bck"]
                    ELSE [st1 EXCEPT !.px.tot_wact = @ + sv.eweight - sv.prev_eweight,
                                     !.srv[s].lb_tree = "lc_act"]
             st3 == fwlc_queue_srv(st2, s)
         IN  refresh_prev(update_backend_weight(st3), s)

RECURSIVE fwlc_queue_usable(_, _)
fwlc_queue_usable(st, s) ==
    IF s \notin DOMAIN st.srv THEN st
    ELSE IF ~srv_is_usable(st.srv[s].state, st.srv[s].eweight) THEN fwlc_queue_usable(st, s + 1)
    ELSE fwlc_queue_usable(
            fwlc_queue_srv([st EXCEPT !.srv[s].lb_tree =
                                IF SRV_BACKUP \in st.srv[s].state THEN "lc_bck" ELSE "lc_act"], s),
            s + 1)

fwlc_init_server_tree(st) ==
    LET st1 == [st EXCEPT !.srv = [s \in DOMAIN st.srv |->
                    [st.srv[s] EXCEPT !.eweight = st.srv[s].uweight * BE_WEIGHT_SCALE,
                                      !.prev_eweight = st.srv[s].uweight * BE_WEIGHT_SCALE,
                                      !.prev_state = st.srv[s].state]]]
        st2 == update_backend_weight(recount_servers(st1))
        st3 == [st2 EXCEPT !.tree["lc_act"] = <<>>, !.tree["lc_bck"] = <<>>]
    IN  fwlc_queue_usable(st3, 1)

\* the while (node) walk without its "s != srvtoavoid" test
RECURSIVE fwlc_walk_takes_avoided(_, _, _, _)
fwlc_walk_takes_avoided(st, q, srvtoavoid, avoided) ==
    IF q = <<>> THEN avoided
    ELSE IF srv_not_saturated(st, Head(q).s) THEN Head(q).s
    ELSE fwlc_walk_takes_avoided(st, Tail(q), srvtoavoid, avoided)

\* the while (node) walk: the first node that is neither saturated nor the
\* server to avoid, else the avoided one, else NULL
RECURSIVE fwlc_walk(_, _, _, _)
fwlc_walk(st, q, srvtoavoid, avoided) ==
    IF q = <<>> THEN avoided
    ELSE IF srv_not_saturated(st, Head(q).s)
    THEN IF Head(q).s # srvtoavoid THEN Head(q).s
         ELSE fwlc_walk(st, Tail(q), srvtoavoid, Head(q).s)
    ELSE fwlc_walk(st, Tail(q), srvtoavoid, avoided)

\* fwlc_get_next_server trying the backup tree before fbck
fwlc_get_next_server_tree_before_fbck(st, srvtoavoid) ==
    IF st.px.srv_act # 0 THEN fwlc_walk(st, st.tree["lc_act"], srvtoavoid, NULL)
    ELSE IF st.px.srv_bck # 0 THEN fwlc_walk(st, st.tree["lc_bck"], srvtoavoid, NULL)
    ELSE IF st.px.fbck # NULL THEN st.px.fbck
    ELSE NULL

fwlc_get_next_server(st, srvtoavoid) ==
    IF st.px.srv_act # 0 THEN fwlc_walk(st, st.tree["lc_act"], srvtoavoid, NULL)
    ELSE IF st.px.fbck # NULL THEN st.px.fbck
    ELSE IF st.px.srv_bck # 0 THEN fwlc_walk(st, st.tree["lc_bck"], srvtoavoid, NULL)
    ELSE NULL

\* ------------------------------------------------------------------- FWRR
\* C's integer division truncates towards zero
CDiv(a, b) == IF a >= 0 THEN a \div b ELSE -((-a) \div b)

\* (unsigned)(x) / BE_WEIGHT_SCALE for an int x
UnsignedOverScale(x) ==
    IF x >= 0 THEN x \div BE_WEIGHT_SCALE ELSE U32_OVER_SCALE + (x \div BE_WEIGHT_SCALE)

CurrOf(g) == IF g = "act" THEN "act_curr" ELSE "bck_curr"
T0Of(g) == IF g = "act" THEN "act_t0" ELSE "bck_t0"
T1Of(g) == IF g = "act" THEN "act_t1" ELSE "bck_t1"

\* grp = (srv->state & SRV_BACKUP) ? &fwrr.bck : &fwrr.act
GrpOf(st, s) == IF SRV_BACKUP \in st.srv[s].state THEN "bck" ELSE "act"

fwrr_remove_from_tree(st, s) == [st EXCEPT !.srv[s].lb_tree = NULLTREE]

fwrr_dequeue_srv(st, s) == eb32_delete(st, s)

fwrr_queue_by_weight(st, root, s) ==
    [eb32_insert(st, root, s, SRV_EWGHT_MAX - st.srv[s].eweight) EXCEPT !.srv[s].lb_tree = root]

fwrr_queue_srv(st, s) ==
    LET sv == st.srv[s]
        g == st.grp[GrpOf(st, s)]
    IN
    IF ~srv_is_usable(sv.state, sv.eweight) THEN fwrr_remove_from_tree(st, s)
    ELSE IF sv.eweight <= 0 \/ sv.npos >= 2 * g.curr_weight
            \/ sv.npos >= g.curr_weight + g.next_weight
    THEN fwrr_queue_by_weight([st EXCEPT !.srv[s].npos = @ - g.curr_weight], g.next, s)
    ELSE [eb32_insert(st, CurrOf(GrpOf(st, s)), s,
                      SRV_UWGHT_RANGE * sv.npos
                      + UnsignedOverScale(SRV_EWGHT_MAX + sv.rweight - sv.eweight))
             EXCEPT !.srv[s].lb_tree = CurrOf(GrpOf(st, s))]

fwrr_get_srv_init(st, s) == [st EXCEPT !.srv[s].npos = 0, !.srv[s].rweight = 0]

fwrr_get_srv_next(st, s) == [st EXCEPT !.srv[s].npos = @ + st.grp[GrpOf(st, s)].curr_weight]

fwrr_get_srv_down(st, s) == [st EXCEPT !.srv[s].npos = st.grp[GrpOf(st, s)].curr_pos]

fwrr_get_srv(st, s) ==
    LET g == st.grp[GrpOf(st, s)] IN
    IF st.srv[s].lb_tree = g.init THEN fwrr_get_srv_init(st, s)
    ELSE IF st.srv[s].lb_tree = g.next THEN fwrr_get_srv_next(st, s)
    ELSE IF st.srv[s].lb_tree = NULLTREE THEN fwrr_get_srv_down(st, s)
    ELSE st

\* srv->npos = grp->curr_pos + (grp->next_weight + grp->curr_weight - grp->curr_pos) / srv->eweight
fwrr_place_after_down(st, s) ==
    LET g == st.grp[GrpOf(st, s)]
    IN  [st EXCEPT !.srv[s].npos =
            g.curr_pos + CDiv(g.next_weight + g.curr_weight - g.curr_pos, st.srv[s].eweight)]

\* fwrr_set_server_status_down without "grp->next_weight -= srv->prev_eweight"
fwrr_set_server_status_down_keeps_weight(st, s) ==
    LET sv == st.srv[s]
        gn == GrpOf(st, s)
    IN
    IF unchanged_since_prev(st, s) THEN st
    ELSE IF srv_is_usable(sv.state, sv.eweight) THEN refresh_prev(st, s)
    ELSE IF ~srv_is_usable(sv.prev_state, sv.prev_eweight)
    THEN refresh_prev(update_backend_weight(st), s)
    ELSE LET st1 == IF SRV_BACKUP \in sv.state
                    THEN [st EXCEPT !.px.tot_wbck = st.grp["bck"].next_weight,
                                    !.px.srv_bck = @ - 1,
                                    !.px.fbck = IF s = st.px.fbck
                                                THEN next_usable_backup(st, s) ELSE @]
                    ELSE [st EXCEPT !.px.tot_wact = st.grp["act"].next_weight,
                                    !.px.srv_act = @ - 1]
             st2 == fwrr_remove_from_tree(fwrr_dequeue_srv(st1, s), s)
         IN  refresh_prev(update_backend_weight(st2), s)

\* fwrr_set_server_status_down without fwrr_dequeue_srv / fwrr_remove_from_tree
fwrr_set_server_status_down_keeps_node(st, s) ==
    LET sv == st.srv[s]
        gn == GrpOf(st, s)
    IN
    IF unchanged_since_prev(st, s) THEN st
    ELSE IF srv_is_usable(sv.state, sv.eweight) THEN refresh_prev(st, s)
    ELSE IF ~srv_is_usable(sv.prev_state, sv.prev_eweight)
    THEN refresh_prev(update_backend_weight(st), s)
    ELSE LET st0 == [st EXCEPT !.grp[gn].next_weight = @ - sv.prev_eweight]
             st1 == IF SRV_BACKUP \in sv.state
                    THEN [st0 EXCEPT !.px.tot_wbck = st0.grp["bck"].next_weight,
                                     !.px.srv_bck = @ - 1,
                                     !.px.fbck = IF s = st.px.fbck
                                                 THEN next_usable_backup(st, s) ELSE @]
                    ELSE [st0 EXCEPT !.px.tot_wact = st0.grp["act"].next_weight,
                                     !.px.srv_act = @ - 1]
         IN  refresh_prev(update_backend_weight(st1), s)

fwrr_set_server_status_down(st, s) ==
    LET sv == st.srv[s]
        gn == GrpOf(st, s)
    IN
    IF unchanged_since_prev(st, s) THEN st
    ELSE IF srv_is_usable(sv.state, sv.eweight) THEN refresh_prev(st, s)
    ELSE IF ~srv_is_usable(sv.prev_state, sv.prev_eweight)
    THEN refresh_prev(update_backend_weight(st), s)
    ELSE LET st0 == [st EXCEPT !.grp[gn].next_weight = @ - sv.prev_eweight]
             st1 == IF SRV_BACKUP \in sv.state
                    THEN [st0 EXCEPT !.px.tot_wbck = st0.grp["bck"].next_weight,
                                     !.px.srv_bck = @ - 1,
                                     !.px.fbck = IF s = st.px.fbck
                                                 THEN next_usable_backup(st, s) ELSE @]
                    ELSE [st0 EXCEPT !.px.tot_wact = st0.grp["act"].next_weight,
                                     !.px.srv_act = @ - 1]
             st2 == fwrr_remove_from_tree(fwrr_dequeue_srv(st1, s), s)
         IN  refresh_prev(update_backend_weight(st2), s)

fwrr_set_server_status_up(st, s) ==
    LET sv == st.srv[s]
        gn == GrpOf(st, s)
    IN
    IF unchanged_since_prev(st, s) THEN st
    ELSE IF ~srv_is_usable(sv.state, sv.eweight) THEN refresh_prev(st, s)
    ELSE IF srv_is_usable(sv.prev_state, sv.prev_eweight)
    THEN refresh_prev(update_backend_weight(st), s)
    ELSE LET st0 == [st EXCEPT !.grp[gn].next_weight = @ + sv.eweight]
             st1 == IF SRV_BACKUP \in sv.state
                    THEN [st0 EXCEPT !.px.tot_wbck = st0.grp["bck"].next_weight,
                                     !.px.srv_bck = @ + 1,
                                     !.px.fbck = IF PR_O_USE_ALL_BK \in st.px.options THEN @
                                                 ELSE IF @ = NULL THEN s
                                                 ELSE IF fbck_follows(st, s) THEN s ELSE @]
                    ELSE [st0 EXCEPT !.px.tot_wact = st0.grp["act"].next_weight,
                                     !.px.srv_act = @ + 1]
             st2 == fwrr_queue_srv(fwrr_place_after_down(fwrr_get_srv(st1, s), s), s)
         IN  refresh_prev(update_backend_weight(st2), s)

\* the last branch of fwrr_update_server_weight: the server is in the curr
\* or the next tree
fwrr_adjust_position(st, s) ==
    LET st1 == fwrr_get_srv(st, s)
        g == st1.grp[GrpOf(st1, s)]
        sv == st1.srv[s]
        st2 == IF sv.eweight > 0
               THEN LET prev_next == sv.npos
                        step == CDiv(g.next_weight, sv.eweight)
                        n1 == sv.lpos + step
                        n2 == IF n1 > prev_next THEN prev_next ELSE n1
                        n3 == IF n2 < g.curr_pos + 2 THEN g.curr_pos + step ELSE n2
                    IN  [st1 EXCEPT !.srv[s].npos = n3, !.srv[s].rweight = 0]
               ELSE [st1 EXCEPT !.srv[s].npos = g.curr_pos + g.curr_weight]
    IN  fwrr_queue_srv(fwrr_dequeue_srv(st2, s), s)

fwrr_update_server_weight(st, s) ==
    LET sv == st.srv[s]
        old_state == srv_is_usable(sv.prev_state, sv.prev_eweight)
        new_state == srv_is_usable(sv.state, sv.eweight)
        gn == GrpOf(st, s)
    IN
    IF unchanged_since_prev(st, s) THEN st
    ELSE IF ~old_state /\ ~new_state THEN refresh_prev(st, s)
    ELSE IF ~old_state /\ new_state THEN fwrr_set_server_status_up(st, s)
    ELSE IF old_state /\ ~new_state THEN fwrr_set_server_status_down(st, s)
    ELSE LET st0 == [st EXCEPT !.grp[gn].next_weight = @ - sv.prev_eweight + sv.eweight]
             st1 == [st0 EXCEPT !.px.tot_wact = st0.grp["act"].next_weight,
                                !.px.tot_wbck = st0.grp["bck"].next_weight]
             st2 == IF sv.lb_tree = st1.grp[gn].init
                    THEN fwrr_queue_by_weight(fwrr_dequeue_srv(st1, s), st1.grp[gn].init, s)
                    ELSE IF sv.lb_tree = NULLTREE
                    THEN fwrr_queue_srv(
                            fwrr_place_after_down(fwrr_get_srv(fwrr_dequeue_srv(st1, s), s), s), s)
                    ELSE fwrr_adjust_position(st1, s)
         IN  refresh_prev(update_backend_weight(st2), s)

RECURSIVE fwrr_queue_usable(_, _)
fwrr_queue_usable(st, s) ==
    IF s \notin DOMAIN st.srv THEN st
    ELSE IF ~srv_is_usable(st.srv[s].state, st.srv[s].eweight) THEN fwrr_queue_usable(st, s + 1)
    ELSE fwrr_queue_usable(fwrr_queue_by_weight(st, st.grp[GrpOf(st, s)].init, s), s + 1)

fwrr_init_server_groups(st) ==
    LET st1 == [st EXCEPT !.srv = [s \in DOMAIN st.srv |->
                    [st.srv[s] EXCEPT !.eweight = st.srv[s].uweight * BE_WEIGHT_SCALE,
                                      !.prev_eweight = st.srv[s].uweight * BE_WEIGHT_SCALE,
                                      !.prev_state = st.srv[s].state]]]
        st2 == update_backend_weight(recount_servers(st1))
        st3 == [st2 EXCEPT
                    !.grp = [g \in Groups |->
                        LET w == IF g = "act" THEN st2.px.tot_wact ELSE st2.px.tot_wbck
                        IN  [curr_pos |-> w, curr_weight |-> w, next_weight |-> w,
                             init |-> T0Of(g), next |-> T1Of(g)]],
                    !.tree = [t \in TreeNames |-> IF t \in RRTrees THEN <<>> ELSE st2.tree[t]]]
    IN  fwrr_queue_usable(st3, 1)

\* fwrr_switch_trees without the swap of the init and next trees
fwrr_switch_trees_no_swap(st, gn) ==
    [st EXCEPT !.grp[gn].curr_weight = st.grp[gn].next_weight,
               !.grp[gn].curr_pos = st.grp[gn].next_weight]

fwrr_switch_trees(st, gn) ==
    [st EXCEPT !.grp[gn].init = st.grp[gn].next,
               !.grp[gn].next = st.grp[gn].init,
               !.grp[gn].curr_weight = st.grp[gn].next_weight,
               !.grp[gn].curr_pos = st.grp[gn].next_weight]

\* fwrr_get_server_from_group that goes to the init tree only when the
\* current tree is empty, not when its first server lies beyond curr_pos
fwrr_get_server_from_group_no_hole(st, gn) ==
    LET node == eb32_first(st, CurrOf(gn)) IN
    IF node = NULL
    THEN LET node2 == eb32_first(st, st.grp[gn].init) IN
         IF node2 # NULL
         THEN LET st1 == fwrr_get_srv_init(st, node2)
              IN  [st |-> st1, s |-> IF st1.srv[node2].eweight = 0 THEN NULL ELSE node2]
         ELSE [st |-> st, s |-> node]
    ELSE [st |-> st, s |-> node]

\* returns the state (fwrr_get_srv_init may have reset the server) and the
\* server found, or NULL
fwrr_get_server_from_group(st, gn) ==
    LET node == eb32_first(st, CurrOf(gn)) IN
    IF node = NULL \/ st.srv[node].npos > st.grp[gn].curr_pos
    THEN LET node2 == eb32_first(st, st.grp[gn].init) IN
         IF node2 # NULL
         THEN LET st1 == fwrr_get_srv_init(st, node2)
              IN  [st |-> st1, s |-> IF st1.srv[node2].eweight = 0 THEN NULL ELSE node2]
         ELSE [st |-> st, s |-> node]
    ELSE [st |-> st, s |-> node]

fwrr_update_position_drops_remainder(st, gn, s) ==
    LET g == st.grp[gn]
        sv == st.srv[s]
        base == IF sv.npos = 0 THEN g.curr_pos ELSE sv.npos
    IN  [st EXCEPT !.srv[s].lpos = base,
                   !.srv[s].npos = base + CDiv(g.next_weight, sv.eweight)]

fwrr_update_position(st, gn, s) ==
    LET g == st.grp[gn]
        sv == st.srv[s]
        base == IF sv.npos = 0 THEN g.curr_pos ELSE sv.npos
        np == base + CDiv(g.next_weight, sv.eweight)
        rw == sv.rweight + (g.next_weight % sv.eweight)
    IN  [st EXCEPT !.srv[s].lpos = base,
                   !.srv[s].npos = IF rw >= sv.eweight THEN np + 1 ELSE np,
                   !.srv[s].rweight = IF rw >= sv.eweight THEN rw - sv.eweight ELSE rw]

\* The loops of fwrr_get_next_server work on a record of the function's
\* locals: st, grp, srvtoavoid, switched, avoided, full (the next_full chain,
\* last chained first), srv, and fault (a division by a zero eweight).
RECURSIVE fwrr_find_server(_)

\* the inner while (1) without its "if (avoided)": once the trees have been
\* switched and are empty, no server is returned
fwrr_find_step_forgets_avoided(L, r) ==
    IF r.s # NULL THEN [L EXCEPT !.st = r.st, !.srv = r.s]
    ELSE IF L.switched THEN [L EXCEPT !.st = r.st, !.srv = NULL]
    ELSE fwrr_find_server([L EXCEPT !.st = fwrr_switch_trees(r.st, L.grp), !.switched = TRUE])

\* the inner while (1), given what fwrr_get_server_from_group returned
fwrr_find_step(L, r) ==
    IF r.s # NULL THEN [L EXCEPT !.st = r.st, !.srv = r.s]
    ELSE IF L.switched THEN [L EXCEPT !.st = r.st, !.srv = L.avoided]
    ELSE fwrr_find_server([L EXCEPT !.st = fwrr_switch_trees(r.st, L.grp), !.switched = TRUE])

fwrr_find_server(L) == fwrr_find_step(L, fwrr_get_server_from_group(L.st, L.grp))

\* if (!grp->curr_weight) grp->curr_pos = grp->curr_weight = grp->next_weight
fwrr_collect_weights(L) ==
    IF L.st.grp[L.grp].curr_weight = 0
    THEN [L EXCEPT !.st.grp[L.grp].curr_pos = L.st.grp[L.grp].next_weight,
                   !.st.grp[L.grp].curr_weight = L.st.grp[L.grp].next_weight]
    ELSE L

RECURSIVE fwrr_select_loop(_)

\* the end of the outer while (1): the server is returned, or chained and the
\* loop goes on
fwrr_select_taken(L) ==
    IF srv_not_saturated(L.st, L.srv)
    THEN IF L.srv # L.srvtoavoid \/ L.avoided # NULL THEN L
         ELSE fwrr_select_loop([L EXCEPT !.avoided = L.srv, !.full = <<L.srv>> \o L.full])
    ELSE fwrr_select_loop([L EXCEPT !.full = <<L.srv>> \o L.full])

\* fwrr_update_position(grp, srv); fwrr_dequeue_srv(srv); grp->curr_pos++
fwrr_select_found(L) ==
    IF L.srv = NULL THEN L
    ELSE IF L.st.srv[L.srv].eweight = 0 THEN [L EXCEPT !.fault = TRUE]
    ELSE fwrr_select_taken(
            [L EXCEPT !.st = [fwrr_dequeue_srv(fwrr_update_position(L.st, L.grp, L.srv), L.srv)
                                EXCEPT !.grp[L.grp].curr_pos = @ + 1]])

fwrr_select_loop(L) == fwrr_select_found(fwrr_find_server(fwrr_collect_weights(L)))

\* the requeue_servers label without its two do/while loops
fwrr_requeue_servers_forgets(st, gn, full, s, switched) == st

RECURSIVE fwrr_requeue_servers(_, _, _, _, _)
fwrr_requeue_servers(st, gn, full, s, switched) ==
    IF full = <<>> THEN st
    ELSE fwrr_requeue_servers(
            IF Head(full) = s THEN st
            ELSE IF switched THEN fwrr_queue_by_weight(st, st.grp[gn].init, Head(full))
            ELSE fwrr_queue_srv(st, Head(full)),
            gn, Tail(full), s, switched)

\* what follows the loop: fwrr_queue_srv(srv) and the requeue_servers label
fwrr_after_loop(L) ==
    IF L.fault THEN [st |-> L.st, ret |-> NULL, fault |-> TRUE, switched |-> L.switched]
    ELSE [st |-> fwrr_requeue_servers(
                    IF L.srv # NULL THEN fwrr_queue_srv(L.st, L.srv) ELSE L.st,
                    L.grp, L.full, L.srv, L.switched),
          ret |-> L.srv, fault |-> FALSE, switched |-> L.switched]

\* returns the new state, the server (or NULL), and whether the call faulted
fwrr_get_next_server(st, srvtoavoid) ==
    IF st.px.srv_act = 0 /\ st.px.fbck # NULL
    THEN [st |-> st, ret |-> st.px.fbck, fault |-> FALSE, switched |-> FALSE]
    ELSE IF st.px.srv_act = 0 /\ st.px.srv_bck = 0
    THEN [st |-> st, ret |-> NULL, fault |-> FALSE, switched |-> FALSE]
    ELSE fwrr_after_loop(fwrr_select_loop(
            [st |-> st, grp |-> IF st.px.srv_act # 0 THEN "act" ELSE "bck",
             srvtoavoid |-> srvtoavoid, switched |-> FALSE, avoided |-> NULL,
             full |-> <<>>, srv |-> NULL, fault |-> FALSE]))

\* ------------------------------------------------------- the backend's life
BE_LB_ALGO_LC == "LC"
BE_LB_ALGO_RR == "RR"

\* a server as the configuration leaves it: zeroed, then state, weight, maxconn
ConfiguredServer(backup, uw, mc) ==
    [state |-> IF backup THEN {SRV_RUNNING, SRV_BACKUP} ELSE {SRV_RUNNING},
     uweight |-> uw, eweight |-> 0, prev_state |-> {}, prev_eweight |-> 0,
     served |-> 0, nbpend |-> 0, maxconn |-> mc,
     lb_tree |-> NULLTREE, lpos |-> 0, npos |-> 0, rweight |-> 0]

ConfiguredProxy(algo, options) ==
    [options |-> options, algo |-> algo, srv_act |-> 0, srv_bck |-> 0,
     tot_wact |-> 0, tot_wbck |-> 0, tot_weight |-> 0, tot_used |-> 0, fbck |-> NULL]

ZeroGroup == [curr_pos |-> 0, curr_weight |-> 0, next_weight |-> 0,
              init |-> NULLTREE, next |-> NULLTREE]

\* the backend after the configuration's call of the algorithm's init function
InitBackend(algo, options, servers) ==
    LET st0 == [srv |-> servers, px |-> ConfiguredProxy(algo, options),
                tree |-> [t \in TreeNames |-> <<>>], grp |-> [g \in Groups |-> ZeroGroup]]
    IN  IF algo = BE_LB_ALGO_LC THEN fwlc_init_server_tree(st0)
        ELSE fwrr_init_server_groups(st0)

\* The user weights a backend is configured with. A round-robin backend starts
\* with weight-0 servers, which notifications then raise: a configured weight
\* is scaled by BE_WEIGHT_SCALE, and so is the length of a round-robin cycle.
ConfiguredWeights(algo) == IF algo = BE_LB_ALGO_RR THEN {0} ELSE UWeights

NoCall == [op |-> "none", avoid |-> NULL, ret |-> NULL]

Apply(st) == srv' = st.srv /\ px' = st.px /\ tree' = st.tree /\ grp' = st.grp

Init ==
    \E algo \in {BE_LB_ALGO_LC, BE_LB_ALGO_RR}, options \in {{}, {PR_O_USE_ALL_BK}} :
    \E bk \in [Srv -> BOOLEAN], uw \in [Srv -> ConfiguredWeights(algo)],
       mc \in MaxConnPatterns :
        LET st == InitBackend(algo, options,
                              [s \in Srv |-> ConfiguredServer(bk[s], uw[s], mc[s])])
        IN  /\ srv = st.srv /\ px = st.px /\ tree = st.tree /\ grp = st.grp
            /\ last = NoCall
            /\ nnotify = 0
            /\ picks = <<>>
            /\ Only({"backend"})

\* lbprm.set_server_status_up / set_server_status_down / update_server_eweight
CallHook(h, st, s) ==
    IF st.px.algo = BE_LB_ALGO_LC
    THEN CASE h = "up" -> fwlc_set_server_status_up(st, s)
           [] h = "down" -> fwlc_set_server_status_down(st, s)
           [] h = "update" -> fwlc_update_server_weight(st, s)
    ELSE CASE h = "up" -> fwrr_set_server_status_up(st, s)
           [] h = "down" -> fwrr_set_server_status_down(st, s)
           [] h = "update" -> fwrr_update_server_weight(st, s)

\* lbprm.server_take_conn / server_drop_conn: set by FWLC only
CallReposition(st, s) ==
    IF st.px.algo = BE_LB_ALGO_LC THEN fwlc_srv_reposition(st, s) ELSE st

\* What each hook is to be called after: update_server_eweight after any
\* change, set_server_status_down after one that takes the server down (it
\* does not matter whether it was already down), set_server_status_up after
\* one of a server that was down (it does not change a server already up).
HookHandles(h, was_usable, is_usable) ==
    \/ h = "update"
    \/ h = "down" /\ ~is_usable
    \/ h = "up" /\ ~was_usable

\* Server s changes its running flag and/or its effective weight, and the
\* caller notifies the load balancer through a hook h meant for the change.
SrvNotify(s, running, w, h) ==
    LET sv == srv[s]
        st1 == [Cur EXCEPT !.srv[s].state = IF running THEN sv.state \cup {SRV_RUNNING}
                                                       ELSE sv.state \ {SRV_RUNNING},
                           !.srv[s].eweight = w]
    IN  /\ nnotify < MaxNotify
        /\ nnotify' = nnotify + 1
        /\ st1.srv[s] # sv
        /\ Apply(CallHook(h, st1, s))
        /\ HookHandles(h, srv_is_usable(sv.state, sv.eweight),
                        srv_is_usable(st1.srv[s].state, w))
        /\ last' = NoCall
        /\ UNCHANGED picks
        /\ UNCHANGED rest_lb

\* a connection is assigned to server s
TakeConn(s) ==
    /\ srv[s].served < MaxServed
    /\ Apply(CallReposition([Cur EXCEPT !.srv[s].served = @ + 1], s))
    /\ last' = NoCall
    /\ UNCHANGED <<nnotify, picks>>
    /\ UNCHANGED rest_lb

\* a connection of server s is released
DropConn(s) ==
    /\ srv[s].served > 0
    /\ Apply(CallReposition([Cur EXCEPT !.srv[s].served = @ - 1], s))
    /\ last' = NoCall
    /\ UNCHANGED <<nnotify, picks>>
    /\ UNCHANGED rest_lb

\* a connection is queued on server s, which has a maxconn
PendAdd(s) ==
    /\ srv[s].maxconn # 0
    /\ srv[s].nbpend < MaxPend
    /\ srv' = [srv EXCEPT ![s].nbpend = @ + 1]
    /\ last' = NoCall
    /\ UNCHANGED <<px, tree, grp, nnotify, picks>>
    /\ UNCHANGED rest_lb

\* a queued connection leaves the queue of server s
PendDel(s) ==
    /\ srv[s].nbpend > 0
    /\ srv' = [srv EXCEPT ![s].nbpend = @ - 1]
    /\ last' = NoCall
    /\ UNCHANGED <<px, tree, grp, nnotify, picks>>
    /\ UNCHANGED rest_lb

\* get_next_server as the backend's algorithm provides it
get_next_server(st, srvtoavoid) ==
    IF st.px.algo = BE_LB_ALGO_LC
    THEN [st |-> st, ret |-> fwlc_get_next_server(st, srvtoavoid), fault |-> FALSE,
          switched |-> FALSE]
    ELSE fwrr_get_next_server(st, srvtoavoid)

\* a caller asks for the next server, giving a server to avoid or NULL
Returned(a, r) ==
    /\ Apply(r.st)
    /\ last' = [op |-> IF r.fault THEN "fault" ELSE "next", avoid |-> a, ret |-> r.ret]

GetNextServer(a) ==
    /\ last.op # "fault"
    /\ Returned(a, get_next_server(Cur, a))
    /\ UNCHANGED <<nnotify, picks>>
    /\ UNCHANGED rest_lb

Next ==
    \/ \E s \in Srv, running \in BOOLEAN, w \in EWeights, h \in Hooks : SrvNotify(s, running, w, h)
    \/ \E s \in Srv : TakeConn(s)
    \/ \E s \in Srv : DropConn(s)
    \/ \E s \in Srv : PendAdd(s)
    \/ \E s \in Srv : PendDel(s)
    \/ \E a \in Srv \cup {NULL} : GetNextServer(a)

Spec == Init /\ [][Next]_vars


\* ------------------------------------------- a backend with heavy weights
\* A least-connections backend whose configured weights reach the top of the
\* weight range, where the key of fwlc_queue_srv truncates.
InitHeavy ==
    \E bk \in [Srv -> BOOLEAN], uw \in [Srv -> HeavyUWeights], mc \in MaxConnPatterns :
        LET st == InitBackend(BE_LB_ALGO_LC, {},
                              [s \in Srv |-> ConfiguredServer(bk[s], uw[s], mc[s])])
        IN  /\ srv = st.srv /\ px = st.px /\ tree = st.tree /\ grp = st.grp
            /\ last = NoCall
            /\ nnotify = 0
            /\ picks = <<>>
            /\ Only({"backend"})

NextHeavy ==
    \/ \E s \in Srv, running \in BOOLEAN, w \in HeavyEWeights, h \in Hooks :
            SrvNotify(s, running, w, h)
    \/ \E s \in Srv : TakeConn(s)
    \/ \E s \in Srv : DropConn(s)
    \/ \E s \in Srv : PendAdd(s)
    \/ \E s \in Srv : PendDel(s)
    \/ \E a \in Srv \cup {NULL} : GetNextServer(a)

SpecHeavy == InitHeavy /\ [][NextHeavy]_vars

\* ------------------------------------------------- the selection scenario
\* A least-connections backend of three active servers without maxconn. The
\* servers are given their effective weights in list order, and then every
\* get_next_server(NULL) is followed by a take-connection on its result.
InitScenario ==
    LET st == InitBackend(BE_LB_ALGO_LC, {},
                          [s \in ScnSrv |-> ConfiguredServer(FALSE, 1, 0)])
    IN  /\ srv = st.srv /\ px = st.px /\ tree = st.tree /\ grp = st.grp
        /\ last = NoCall
        /\ nnotify = 0
        /\ picks = <<>>
        /\ Only({"backend"})

\* the next server of the list is given effective weight w
ScnWeigh(w) ==
    LET s == nnotify + 1
    IN  /\ s \in ScnSrv
        /\ Apply(fwlc_update_server_weight([Cur EXCEPT !.srv[s].eweight = w], s))
        /\ nnotify' = nnotify + 1
        /\ UNCHANGED <<last, picks>>
        /\ UNCHANGED rest_lb

ScnSelect ==
    /\ nnotify + 1 \notin ScnSrv
    /\ last.op = "none"
    /\ Len(picks) < MaxPicks
    /\ last' = [op |-> "next", avoid |-> NULL, ret |-> fwlc_get_next_server(Cur, NULL)]
    /\ UNCHANGED <<srv, px, tree, grp, nnotify, picks>>
    /\ UNCHANGED rest_lb

\* take-connection on the server get_next_server returned
ScnTake ==
    /\ last.op = "next"
    /\ last.ret # NULL
    /\ Apply(fwlc_srv_reposition([Cur EXCEPT !.srv[last.ret].served = @ + 1], last.ret))
    /\ picks' = Append(picks, last.ret)
    /\ UNCHANGED rest_lb
    /\ last' = NoCall
    /\ UNCHANGED nnotify

NextScenario ==
    \/ \E w \in ScnEWeights : ScnWeigh(w)
    \/ ScnSelect
    \/ ScnTake

SpecScenario == InitScenario /\ [][NextScenario]_vars

\* ------------------------------------------------- the round-robin pool
\* A round-robin backend of three active servers without maxconn, configured
\* with weight 0. The servers are given their effective weights in list order
\* (0 leaves a server out of the pool); the pool is static from then on, and
\* every selection is a fwrr_get_next_server(NULL).
InitRound ==
    LET st == InitBackend(BE_LB_ALGO_RR, {},
                          [s \in ScnSrv |-> ConfiguredServer(FALSE, 0, 0)])
    IN  /\ srv = st.srv /\ px = st.px /\ tree = st.tree /\ grp = st.grp
        /\ last = NoCall
        /\ nnotify = 0
        /\ picks = <<>>
        /\ Only({"backend"})

RndWeigh(w) ==
    LET s == nnotify + 1
    IN  /\ s \in ScnSrv
        /\ Apply(fwrr_update_server_weight([Cur EXCEPT !.srv[s].eweight = w], s))
        /\ nnotify' = nnotify + 1
        /\ UNCHANGED <<last, picks>>
        /\ UNCHANGED rest_lb

Selected(r) ==
    /\ Apply(r.st)
    /\ last' = [op |-> IF r.fault THEN "fault" ELSE "next", avoid |-> NULL, ret |-> r.ret]
    /\ picks' = Append(picks, r.ret)
    /\ UNCHANGED rest_lb

RndSelect ==
    /\ nnotify + 1 \notin ScnSrv
    /\ last.op # "fault"
    /\ Len(picks) < MaxRound
    /\ Selected(fwrr_get_next_server(Cur, NULL))
    /\ UNCHANGED nnotify

NextRound ==
    \/ \E w \in RoundEWeights : RndWeigh(w)
    \/ RndSelect

SpecRound == InitRound /\ [][NextRound]_vars

\* ------------------------------------------------- servers going down
\* A backend of either algorithm with three servers without maxconn, the
\* third one possibly a backup, configured with weight 0. The servers are
\* given their effective weights in list order through update_server_eweight;
\* from then on usable servers lose SRV_RUNNING, the backend being told
\* through set_server_status_down, and callers ask for the next server.
DownEWeights == {0, 1, 2}

InitDown ==
    \E algo \in {BE_LB_ALGO_LC, BE_LB_ALGO_RR}, bk \in BOOLEAN :
        LET st == InitBackend(algo, {},
                              [s \in ScnSrv |-> ConfiguredServer(bk /\ s = 3, 0, 0)])
        IN  /\ srv = st.srv /\ px = st.px /\ tree = st.tree /\ grp = st.grp
            /\ last = NoCall
            /\ nnotify = 0
            /\ picks = <<>>
            /\ Only({"backend"})

DwnWeigh(w) ==
    LET s == nnotify + 1
    IN  /\ s \in ScnSrv
        /\ Apply(CallHook("update", [Cur EXCEPT !.srv[s].eweight = w], s))
        /\ nnotify' = nnotify + 1
        /\ UNCHANGED <<last, picks>>
        /\ UNCHANGED rest_lb

DwnDown(s) ==
    /\ nnotify + 1 \notin ScnSrv
    /\ nnotify < 3 + MaxDowns
    /\ srv_is_usable(srv[s].state, srv[s].eweight)
    /\ Apply(CallHook("down", [Cur EXCEPT !.srv[s].state = @ \ {SRV_RUNNING}], s))
    /\ nnotify' = nnotify + 1
    /\ last' = [op |-> "down", avoid |-> NULL, ret |-> s]
    /\ UNCHANGED picks
    /\ UNCHANGED rest_lb

DwnSelect ==
    /\ nnotify + 1 \notin ScnSrv
    /\ last.op # "fault"
    /\ Len(picks) < MaxPicks
    /\ Selected(get_next_server(Cur, NULL))
    /\ UNCHANGED nnotify

NextDown ==
    \/ \E w \in DownEWeights : DwnWeigh(w)
    \/ \E s \in ScnSrv : DwnDown(s)
    \/ DwnSelect

SpecDown == InitDown /\ [][NextDown]_vars
\* ========================================================== the pollers
\* ev_sepoll.c: the speculative epoll() poller. The fd table has NFd slots,
\* numbered from 1; a closed slot is a free fd number.
Fd == 1..NFd
DIR_RD == 0
DIR_WR == 1
Dirs == {DIR_RD, DIR_WR}
FD_STCLOSE == "FD_STCLOSE"
FD_STREADY == "FD_STREADY"
FD_STERROR == "FD_STERROR"

FD_EV_IN_SL == 1
FD_EV_IN_PL == 4
FD_EV_IDLE == 0
FD_EV_SPEC == FD_EV_IN_SL
FD_EV_WAIT == FD_EV_IN_PL
FD_EV_STOP == FD_EV_IN_SL + FD_EV_IN_PL
MIN_RETURN_EVENTS == 25

\* the bits Wp Rp Ws Rs of an event word
Pow2(k) == CASE k = 0 -> 1 [] k = 1 -> 2 [] k = 2 -> 4 [] k = 3 -> 8
Bit(e, k) == (e \div Pow2(k)) % 2
ToggleBit(e, k) == IF Bit(e, k) = 1 THEN e - Pow2(k) ELSE e + Pow2(k)
ClearBit(e, k) == IF Bit(e, k) = 1 THEN e - Pow2(k) ELSE e

\* ((unsigned)e >> dir) & FD_EV_MASK_DIR
DirState(e, dir) == Bit(e, dir) * FD_EV_IN_SL + Bit(e, dir + 2) * FD_EV_IN_PL

\* e & FD_EV_RW_SL
InSpecList(e) == Bit(e, 0) = 1 \/ Bit(e, 1) = 1

\* the directions of e & FD_EV_RW_PL
InPollList(e) == {dir \in Dirs : Bit(e, dir + 2) = 1}

\* the poller state the functions of ev_sepoll.c work on
Ep == [fdtab |-> fdtab, spec_list |-> spec_list, nbspec |-> nbspec,
       fd_created |-> fd_created, epoll |-> epoll, hist |-> hist]

alloc_spec_entry(es, fd) ==
    IF es.fdtab[fd].s1 # 0 THEN es
    ELSE [es EXCEPT !.fdtab[fd].s1 = es.nbspec + 1,
                    !.spec_list[es.nbspec] = fd,
                    !.nbspec = @ + 1]

release_spec_entry(es, fd) ==
    LET pos == es.fdtab[fd].s1 - 1
        nb == es.nbspec - 1
        moved == es.spec_list[nb]
    IN  IF es.fdtab[fd].s1 = 0 THEN es
        ELSE IF pos = nb THEN [es EXCEPT !.fdtab[fd].s1 = 0, !.nbspec = nb]
        ELSE [es EXCEPT !.fdtab[fd].s1 = 0,
                        !.nbspec = nb,
                        !.spec_list[pos] = moved,
                        !.fdtab[moved].s1 = pos + 1]

\* hist.lazy: the fds that __fd_set or __fd_clr left in the spec list without
\* a spec bit, for the next spec walk to release
\* hist.fresh: the open fds that the callbacks of the current _do_poll have
\* put in the SPEC state since fd_created was reset
note_lazy(es, fd) ==
    [es EXCEPT !.hist.lazy = IF es.fdtab[fd].s1 # 0 /\ ~InSpecList(es.fdtab[fd].e)
                             THEN @ \cup {fd} ELSE @ \ {fd}]

__fd_set(es, fd, dir) ==
    LET i == DirState(es.fdtab[fd].e, dir)
        es1 == IF i # FD_EV_STOP
               THEN alloc_spec_entry([es EXCEPT !.fd_created = @ + 1,
                                                !.hist.fresh = @ \cup {fd}], fd)
               ELSE es
    IN  IF i # FD_EV_STOP /\ i # FD_EV_IDLE THEN es
        ELSE note_lazy([es1 EXCEPT !.fdtab[fd].e = ToggleBit(@, dir)], fd)

__fd_clr(es, fd, dir) ==
    LET i == DirState(es.fdtab[fd].e, dir)
        es1 == IF i # FD_EV_SPEC THEN alloc_spec_entry(es, fd) ELSE es
    IN  IF i # FD_EV_SPEC /\ i # FD_EV_WAIT THEN es
        ELSE note_lazy([es1 EXCEPT !.fdtab[fd].e = ToggleBit(@, dir)], fd)

__fd_rem(es, fd) == __fd_clr(__fd_clr(es, fd, DIR_RD), fd, DIR_WR)

\* what __fd_is_set, __fd_set and __fd_clr return
__fd_is_set(es, fd, dir) ==
    IF DirState(es.fdtab[fd].e, dir) \in {FD_EV_SPEC, FD_EV_WAIT} THEN 1 ELSE 0

__fd_set_ret(es, fd, dir) ==
    LET i == DirState(es.fdtab[fd].e, dir)
    IN  IF i # FD_EV_STOP /\ i # FD_EV_IDLE THEN 0 ELSE 1

__fd_clr_ret(es, fd, dir) ==
    LET i == DirState(es.fdtab[fd].e, dir)
    IN  IF i # FD_EV_SPEC /\ i # FD_EV_WAIT THEN 0 ELSE 1

__fd_clo(es, fd) ==
    [release_spec_entry(es, fd) EXCEPT !.fdtab[fd].e = 0, !.hist.lazy = @ \ {fd},
                                       !.hist.fresh = @ \ {fd}]

\* fd_delete: the poller's clo, then close(), which takes the fd out of the
\* kernel's epoll set, then the slot is marked closed
fd_delete(es, fd) ==
    [__fd_clo(es, fd) EXCEPT !.epoll[fd] = {}, !.fdtab[fd].state = FD_STCLOSE]

\* fd_insert: the slot of a new fd is put to use
fd_insert(es, fd) == [es EXCEPT !.fdtab[fd].state = FD_STREADY]

\* the fd number the kernel gives to a new socket: the lowest free one
free_fd(es) ==
    LET c == {f \in Fd : es.fdtab[f].state = FD_STCLOSE}
    IN  IF c = {} THEN 0 ELSE SetMin(c)

\* What a callback may do to the poller: nothing, close its fd, stop its own
\* direction, ask for the other direction, or accept a connection on a new
\* fd. It then returns 0 or 1. The callbacks here do not put their fd in
\* FD_STERROR: _do_poll calls no callback of such an fd and leaves its event
\* word alone, as for an fd whose callbacks do nothing and return 1.
CbActs == {"none", "close", "clr", "set_other", "accept"}
CbOutcomes == [act : CbActs, ret : {0, 1}]
\* the outcome written for a callback that is not called
NoCb == [act |-> "none", ret |-> 1]

cb_effect(es, fd, dir, act) ==
    CASE act = "none" -> es
      [] act = "close" -> fd_delete(es, fd)
      [] act = "clr" -> __fd_clr(es, fd, dir)
      [] act = "set_other" -> __fd_set(es, fd, 1 - dir)
      [] act = "accept" ->
            IF free_fd(es) = 0 THEN es
            ELSE __fd_set(fd_insert(es, free_fd(es)), free_fd(es), DIR_RD)

\* fdtab[fd].cb[dir].f(fd): hist.on_closed records, for the current turn of
\* a loop of _do_poll, a call for a closed fd, which can do nothing to the
\* poller
call_cb(es, fd, dir, o) ==
    IF es.fdtab[fd].state = FD_STCLOSE
    THEN [es EXCEPT !.hist.on_closed = @ \cup {<<fd, dir>>}]
    ELSE cb_effect(es, fd, dir, o.act)

\* one direction of an entry of the spec walk, eo being the saved old events
spec_dir(es, fd, dir, eo, o) ==
    IF DirState(eo, dir) = FD_EV_SPEC
    THEN IF es.fdtab[fd].state # FD_STERROR
         THEN LET es1 == call_cb(es, fd, dir, o)
              IN  IF o.ret = 0
                  THEN [es1 EXCEPT !.fdtab[fd].e = ToggleBit(ToggleBit(@, dir), dir + 2)]
                  ELSE es1
         ELSE es
    ELSE IF DirState(eo, dir) = FD_EV_STOP
    THEN [es EXCEPT !.fdtab[fd].e = ClearBit(ClearBit(@, dir), dir + 2)]
    ELSE es

\* whether the direction's callback succeeded
spec_done(es, fd, dir, eo, o) ==
    DirState(eo, dir) = FD_EV_SPEC /\ es.fdtab[fd].state # FD_STERROR /\ o.ret # 0

\* the opcode the spec walk chooses from the poll bits before (eo) and after (e)
EPOLL_CTL_ADD == "EPOLL_CTL_ADD"
EPOLL_CTL_MOD == "EPOLL_CTL_MOD"
EPOLL_CTL_DEL == "EPOLL_CTL_DEL"

ctl_opcode(eo, e) ==
    IF InPollList(e) = {} THEN EPOLL_CTL_DEL
    ELSE IF InPollList(eo) = {} THEN EPOLL_CTL_ADD
    ELSE EPOLL_CTL_MOD

\* epoll_ctl(epoll_fd, opcode, fd, &ev): the kernel refuses to add an fd that
\* is in its set (EEXIST) and to modify or delete one that is not (ENOENT),
\* and _do_poll does not look at the result. hist.refused records, for the
\* current turn of the spec walk, a call the kernel refused
epoll_ctl(es, opcode, fd, dirs) ==
    IF (opcode = EPOLL_CTL_ADD) = (es.epoll[fd] = {})
    THEN [es EXCEPT !.epoll[fd] = IF opcode = EPOLL_CTL_DEL THEN {} ELSE dirs]
    ELSE [es EXCEPT !.hist.refused = @ \cup {<<fd, opcode>>}]

\* spec_adjust without release_spec_entry
spec_adjust_no_release(es, fd, eo) ==
    IF es.fdtab[fd].state = FD_STCLOSE THEN es
    ELSE IF InPollList(eo) # InPollList(es.fdtab[fd].e)
    THEN epoll_ctl(es, ctl_opcode(eo, es.fdtab[fd].e), fd, InPollList(es.fdtab[fd].e))
    ELSE es

\* the end of an entry of the spec walk, eo being the saved old events: unless
\* a callback closed the fd, the kernel's set follows the poll bits and an fd
\* without spec bit leaves the spec list
spec_adjust(es, fd, eo) ==
    LET e == es.fdtab[fd].e
        es1 == IF InPollList(eo) # InPollList(e)
               THEN epoll_ctl(es, ctl_opcode(eo, e), fd, InPollList(e)) ELSE es
    IN  IF es.fdtab[fd].state = FD_STCLOSE THEN es
        ELSE IF ~InSpecList(e)
        THEN [release_spec_entry(es1, fd) EXCEPT !.hist.lazy = @ \ {fd}]
        ELSE es1

\* the write direction of the entry and its end, after the read direction
spec_entry_after_rd(es, fd, eo, wr) == spec_adjust(spec_dir(es, fd, DIR_WR, eo, wr), fd, eo)

\* one entry of the spec walk: fd = spec_list[spec_idx]
spec_entry(es, fd, rd, wr) ==
    spec_entry_after_rd(spec_dir(es, fd, DIR_RD, es.fdtab[fd].e, rd), fd, es.fdtab[fd].e, wr)

\* "done" of the entry: a callback of a speculative direction returned non-zero
spec_entry_done(es, fd, rd, wr) ==
    IF \/ spec_done(es, fd, DIR_RD, es.fdtab[fd].e, rd)
       \/ spec_done(spec_dir(es, fd, DIR_RD, es.fdtab[fd].e, rd), fd, DIR_WR, es.fdtab[fd].e, wr)
    THEN 1 ELSE 0

\* one direction of an event that epoll_wait returned; r.skip says that a
\* "continue" has ended the processing of the event
event_dir(r, fd, dir, dirs, o) ==
    IF r.skip THEN r
    ELSE IF DirState(r.es.fdtab[fd].e, dir) # FD_EV_WAIT THEN r
    ELSE IF r.es.fdtab[fd].state \in {FD_STCLOSE, FD_STERROR} THEN [r EXCEPT !.skip = TRUE]
    ELSE IF dir \in dirs THEN [r EXCEPT !.es = call_cb(r.es, fd, dir, o)]
    ELSE r

\* the body of the loop over the events of epoll_wait
event_entry(es, ev, rd, wr) ==
    event_dir(event_dir([es |-> es, skip |-> FALSE], ev.fd, DIR_RD, ev.dirs, rd),
              ev.fd, DIR_WR, ev.dirs, wr).es

\* after_walk, with "++last_skipped <= 2" for "++last_skipped <= 1"
after_walk_skips_again(looping, status, processed, skipped, absmax) ==
    IF looping THEN "looped"
    ELSE IF status >= MIN_RETURN_EVENTS /\ processed < absmax /\ skipped + 1 <= 2
    THEN "skipped"
    ELSE "wait"

\* what _do_poll does after the spec walk, processed being spec_processed
\* after "spec_processed += status": return at once after the walk over the
\* new fds ("looped"), return without epoll_wait ("skipped"), or wait
after_walk(looping, status, processed, skipped, absmax) ==
    IF looping THEN "looped"
    ELSE IF status >= MIN_RETURN_EVENTS /\ processed < absmax /\ skipped + 1 <= 1
    THEN "skipped"
    ELSE "wait"

\* ticks.h: millisecond ticks, 0 being TICK_ETERNITY; the ticks here are far
\* from the wrap of the 32-bit counter
tick_is_expired(exp, now) == exp # 0 /\ exp - now <= 0
tick_remain(now, exp) == IF tick_is_expired(exp, now) THEN 0 ELSE exp - now
TICKS_TO_MS(t) == t

\* sepoll_wait_time with no look at nbspec
sepoll_wait_time_ignores_spec(nb, status, run_queue, signal_queue_len, exp, now) ==
    IF status # 0 \/ run_queue # 0 \/ signal_queue_len # 0 THEN 0
    ELSE IF exp = 0 THEN MAX_DELAY_MS
    ELSE IF tick_is_expired(exp, now) THEN 0
    ELSE IF TICKS_TO_MS(tick_remain(now, exp)) + 1 > MAX_DELAY_MS THEN MAX_DELAY_MS
    ELSE TICKS_TO_MS(tick_remain(now, exp)) + 1

\* wait_time of ev_sepoll.c's _do_poll
sepoll_wait_time(nb, status, run_queue, signal_queue_len, exp, now) ==
    IF nb # 0 \/ status # 0 \/ run_queue # 0 \/ signal_queue_len # 0 THEN 0
    ELSE IF exp = 0 THEN MAX_DELAY_MS
    ELSE IF tick_is_expired(exp, now) THEN 0
    ELSE IF TICKS_TO_MS(tick_remain(now, exp)) + 1 > MAX_DELAY_MS THEN MAX_DELAY_MS
    ELSE TICKS_TO_MS(tick_remain(now, exp)) + 1

\* delta_ms of ev_kqueue.c's _do_poll
kqueue_delta_ms(run_queue, signal_queue_len, exp, now) ==
    IF run_queue = 0 /\ signal_queue_len = 0
    THEN IF exp = 0 THEN MAX_DELAY_MS
         ELSE IF ~tick_is_expired(exp, now)
         THEN IF TICKS_TO_MS(tick_remain(now, exp)) + 1 > MAX_DELAY_MS THEN MAX_DELAY_MS
              ELSE TICKS_TO_MS(tick_remain(now, exp)) + 1
         ELSE 0
    ELSE 0

\* ------------------------------------------------ the speculative poller
\* The fds are created, set, cleared and closed by the tasks between two
\* calls of _do_poll and by the callbacks that _do_poll calls.
absmaxevents == 200

PollIdle == [pc |-> "idle", looping |-> FALSE, status |-> 0, spec_idx |-> 0, events |-> <<>>]

InitSepoll ==
    /\ Only({"sepoll"})
    /\ fdtab = [fd \in Fd |-> [state |-> FD_STCLOSE, e |-> 0, s1 |-> 0]]
    /\ spec_list = [i \in 0..(NFd - 1) |-> 0]
    /\ nbspec = 0
    /\ fd_created = 0
    /\ last_skipped = 0
    /\ spec_processed = 0
    /\ epoll = [fd \in Fd |-> {}]
    /\ poll = PollIdle
    /\ hist = [on_closed |-> {}, lazy |-> {}, fresh |-> {}, due |-> {},
               walked |-> {}, read |-> {}, refused |-> {}]

\* the poller state at the start of a turn of a loop of _do_poll
Turn == [Ep EXCEPT !.hist.on_closed = {}, !.hist.refused = {}]

\* hist.due: the fresh fds at the end of the dispatch of the events, for
\* the walk over the new fds; outside of that walk there are none
NoWalk(h) == [h EXCEPT !.fresh = {}, !.due = {}, !.walked = {}, !.read = {}]

EpApply(es) ==
    /\ es.fd_created <= MaxCreated
    /\ fdtab' = es.fdtab /\ spec_list' = es.spec_list /\ nbspec' = es.nbspec
    /\ fd_created' = es.fd_created /\ epoll' = es.epoll /\ hist' = es.hist

\* a task changes the poller between two polls
TaskDoes(es) ==
    /\ poll.pc = "idle"
    /\ es # Ep
    /\ EpApply([es EXCEPT !.hist = NoWalk(@)])
    /\ UNCHANGED <<rest_ep, last_skipped, spec_processed, poll>>

FdInsert(fd) == fdtab[fd].state = FD_STCLOSE /\ TaskDoes(fd_insert(Ep, fd))
FdSet(fd, dir) == fdtab[fd].state # FD_STCLOSE /\ TaskDoes(__fd_set(Ep, fd, dir))
FdClr(fd, dir) == fdtab[fd].state # FD_STCLOSE /\ TaskDoes(__fd_clr(Ep, fd, dir))
FdRem(fd) == fdtab[fd].state # FD_STCLOSE /\ TaskDoes(__fd_rem(Ep, fd))
FdDelete(fd) == fdtab[fd].state # FD_STCLOSE /\ TaskDoes(fd_delete(Ep, fd))

\* _do_poll is called: status = 0; spec_idx = nbspec
PollEnter ==
    /\ poll.pc = "idle"
    /\ poll' = [PollIdle EXCEPT !.pc = "walk", !.spec_idx = nbspec]
    /\ UNCHANGED <<rest_ep, fdtab, spec_list, nbspec, fd_created, last_skipped,
                   spec_processed, epoll, hist>>

\* hist.walked: the fds that the walk over the new fds has visited;
\* hist.read: those of them whose read callback it has called
visit(es, fd) ==
    [es EXCEPT !.hist.walked = @ \cup {fd},
               !.hist.read = IF DirState(es.fdtab[fd].e, DIR_RD) = FD_EV_SPEC
                                /\ es.fdtab[fd].state # FD_STERROR
                             THEN @ \cup {fd} ELSE @]

\* one turn of the while loop of the spec walk; in the walk over the new
\* fds, the loop is left when fd_created is exhausted
WalkEntry(rd, wr) ==
    LET idx == poll.spec_idx - 1
        fd == spec_list[idx]
        es0 == IF poll.looping THEN [Turn EXCEPT !.fd_created = @ - 1] ELSE Turn
    IN  /\ poll.pc = "walk"
        /\ poll.spec_idx > 0
        /\ DirState(fdtab[fd].e, DIR_RD) = FD_EV_SPEC \/ rd = NoCb
        /\ DirState(fdtab[fd].e, DIR_WR) = FD_EV_SPEC \/ wr = NoCb
        /\ IF poll.looping /\ fd_created - 1 < 0
           THEN /\ EpApply(es0)
                /\ poll' = [poll EXCEPT !.spec_idx = 0]
           ELSE /\ EpApply(spec_entry(IF poll.looping THEN visit(es0, fd) ELSE es0,
                                       fd, rd, wr))
                /\ poll' = [poll EXCEPT !.spec_idx = idx,
                                        !.status = @ + spec_entry_done(es0, fd, rd, wr)]
        /\ UNCHANGED <<rest_ep, last_skipped, spec_processed>>

\* what epoll_wait may return: at most MaxPollEvents events, each for a
\* watched fd, with the directions whose callback the event's flags ask for
\* (EPOLLERR and EPOLLHUP come unasked and count for both directions)
KernelEvents ==
    {evs \in UNION {[1..n -> [fd : Fd, dirs : SUBSET Dirs]] : n \in 0..MaxPollEvents} :
        /\ \A i \in DOMAIN evs : evs[i].dirs # {} /\ epoll[evs[i].fd] # {}
        /\ \A i, j \in DOMAIN evs : evs[i].fd = evs[j].fd => i = j}

\* the end of the spec walk: "spec_processed += status", then the return of
\* the walk over the new fds, or the return without epoll_wait, or epoll_wait
WalkLeave(evs) ==
    /\ poll.pc = "walk"
    /\ poll.spec_idx = 0
    /\ evs \in KernelEvents
    /\ LET what == after_walk(poll.looping, poll.status, spec_processed + poll.status,
                              last_skipped, absmaxevents)
       IN  IF what = "wait"
           THEN /\ last_skipped' = 0
                /\ fd_created' = 0
                /\ spec_processed' = 0
                /\ poll' = [poll EXCEPT !.pc = "events", !.events = evs]
           ELSE /\ evs = <<>>
                /\ last_skipped' = last_skipped + 1
                /\ spec_processed' = spec_processed + poll.status
                /\ poll' = PollIdle
                /\ UNCHANGED fd_created
    /\ hist' = NoWalk(Turn.hist)
    /\ UNCHANGED <<rest_ep, fdtab, spec_list, nbspec, epoll>>

\* one turn of the loop over the events of epoll_wait
EventEntry(rd, wr) ==
    /\ poll.pc = "events"
    /\ poll.events # <<>>
    /\ DIR_RD \in Head(poll.events).dirs \/ rd = NoCb
    /\ DIR_WR \in Head(poll.events).dirs \/ wr = NoCb
    /\ EpApply(event_entry(Turn, Head(poll.events), rd, wr))
    /\ poll' = [poll EXCEPT !.events = Tail(@)]
    /\ UNCHANGED <<rest_ep, last_skipped, spec_processed>>

\* after the events: the walk over the fds created meanwhile, or the return
EventsLeave ==
    /\ poll.pc = "events"
    /\ poll.events = <<>>
    /\ poll' = IF fd_created # 0
               THEN [poll EXCEPT !.pc = "walk", !.looping = TRUE, !.status = 0,
                                 !.spec_idx = nbspec]
               ELSE PollIdle
    /\ hist' = IF fd_created # 0 THEN [Turn.hist EXCEPT !.due = hist.fresh]
               ELSE NoWalk(Turn.hist)
    /\ UNCHANGED <<rest_ep, fdtab, spec_list, nbspec, fd_created, last_skipped,
                   spec_processed, epoll>>

NextSepoll ==
    \/ \E fd \in Fd : FdInsert(fd)
    \/ \E fd \in Fd, dir \in Dirs : FdSet(fd, dir)
    \/ \E fd \in Fd, dir \in Dirs : FdClr(fd, dir)
    \/ \E fd \in Fd : FdRem(fd)
    \/ \E fd \in Fd : FdDelete(fd)
    \/ PollEnter
    \/ \E rd, wr \in CbOutcomes : WalkEntry(rd, wr)
    \/ \E evs \in KernelEvents : WalkLeave(evs)
    \/ \E rd, wr \in CbOutcomes : EventEntry(rd, wr)
    \/ EventsLeave

SpecSepoll == InitSepoll /\ [][NextSepoll]_vars

\* ------------------------------------------------ the wait of _do_poll
\* _do_poll as one step, for what it decides about the kernel wait: the spec
\* walk is taken by its results, the number of entries left in the spec list
\* and the number of entries with a successful callback, and the dispatch of
\* the events by whether it created fds. hist keeps what the last call and
\* the call before it did.
StatusVals == {0, 1, MIN_RETURN_EVENTS - 1, MIN_RETURN_EVENTS, MIN_RETURN_EVENTS + 1, absmaxevents}
NowVals == {5000, 5001}
ExpVals == {0, 4000, 5000, 5001, 5002, 5999, 6000, 9000}

NoFds ==
    /\ fdtab = <<>> /\ spec_list = <<>> /\ fd_created = 0 /\ epoll = <<>> /\ poll = PollIdle

InitWait ==
    /\ Only({"sepoll"})
    /\ NoFds
    /\ nbspec = 0
    /\ last_skipped = 0
    /\ spec_processed = 0
    /\ \E e \in {"sepoll", "kqueue"} :
          hist = [engine |-> e, did |-> "none", before |-> "none", timeout |-> 0,
                  nb |-> 0, status |-> 0, run_queue |-> 0, signal_queue_len |-> 0,
                  exp |-> 0, now |-> 0]

\* ev_sepoll.c's _do_poll: after the spec walk nb entries are left and status
\* entries had a successful callback; if the events of epoll_wait created
\* fds, the walk over them has again again_status successful entries
SepollPoll(nb, status, rq, sq, exp, now, created, again_status) ==
    LET processed == spec_processed + status
        what == after_walk(FALSE, status, processed, last_skipped, absmaxevents)
    IN  /\ hist.engine = "sepoll"
        /\ nbspec' = nb
        /\ IF what = "skipped"
           THEN /\ last_skipped' = last_skipped + 1
                /\ spec_processed' = processed
                /\ hist' = [hist EXCEPT !.did = "skipped", !.before = hist.did,
                                        !.timeout = 0, !.nb = nb, !.status = status,
                                        !.run_queue = rq, !.signal_queue_len = sq,
                                        !.exp = exp, !.now = now]
           ELSE /\ last_skipped' = IF created THEN 1 ELSE 0
                /\ spec_processed' = IF created THEN again_status ELSE 0
                /\ hist' = [hist EXCEPT !.did = "waited", !.before = hist.did,
                                        !.timeout = sepoll_wait_time(nb, status, rq, sq, exp, now),
                                        !.nb = nb, !.status = status,
                                        !.run_queue = rq, !.signal_queue_len = sq,
                                        !.exp = exp, !.now = now]
        /\ UNCHANGED <<rest_ep, fdtab, spec_list, fd_created, epoll, poll>>

\* ev_kqueue.c's _do_poll
KqueuePoll(rq, sq, exp, now) ==
    /\ hist.engine = "kqueue"
    /\ hist' = [hist EXCEPT !.did = "waited", !.before = hist.did,
                            !.timeout = kqueue_delta_ms(rq, sq, exp, now),
                            !.run_queue = rq, !.signal_queue_len = sq,
                            !.exp = exp, !.now = now]
    /\ UNCHANGED <<rest_ep, fdtab, spec_list, nbspec, fd_created, last_skipped,
                   spec_processed, epoll, poll>>

NextWait ==
    \/ \E nb \in {0, 1}, status \in StatusVals, rq \in {0, 1}, sq \in {0, 1},
          exp \in ExpVals, now \in NowVals, created \in BOOLEAN, again_status \in {0, 1} :
          SepollPoll(nb, status, rq, sq, exp, now, created, again_status)
    \/ \E rq \in {0, 1}, sq \in {0, 1}, exp \in ExpVals, now \in NowVals :
          KqueuePoll(rq, sq, exp, now)

SpecWait == InitWait /\ [][NextWait]_vars

\* ------------------------------------------------ the kqueue poller
\* k is the state of ev_kqueue.c: k.fd_evts[dir] is the fd_set of the
\* direction, k.kernel the filters that the kernel's kqueue holds
kqueue_fd_is_set(k, fd, dir) == IF fd \in k.fd_evts[dir] THEN 1 ELSE 0

\* kqev_del that returns 1 without FD_CLR
kqev_del_keeps_bit(k, fd, dir) ==
    IF fd \in k.fd_evts[dir] THEN [k |-> k, ret |-> 1] ELSE [k |-> k, ret |-> 0]

\* kqev_del completes a change for deletion; the caller hands it to kevent()
kqev_del(k, fd, dir) ==
    IF fd \in k.fd_evts[dir]
    THEN [k |-> [k EXCEPT !.fd_evts[dir] = @ \ {fd}], ret |-> 1]
    ELSE [k |-> k, ret |-> 0]

kqueue_fd_set(k, fd, dir) ==
    IF fd \in k.fd_evts[dir] THEN [k |-> k, ret |-> 0]
    ELSE [k |-> [k EXCEPT !.fd_evts[dir] = @ \cup {fd},
                          !.kernel = @ \cup {<<fd, dir>>}],
          ret |-> 1]

kqueue_fd_clr(k, fd, dir) ==
    LET d == kqev_del(k, fd, dir)
    IN  IF d.ret = 0 THEN [k |-> k, ret |-> 0]
        ELSE [k |-> [d.k EXCEPT !.kernel = @ \ {<<fd, dir>>}], ret |-> 1]

\* ------------------------------------------------ set and clear
\* The interest calls of the two pollers, each from every state of the
\* poller's interests that the program can be in. The speculative poller
\* starts with any event words, the fds with a spec bit in the spec list and
\* any of the others left there by a set or a clear; the kqueue poller with
\* any fd sets. The call records its arguments, what it returned and what
\* is_set said before.
IsSetMap(f(_, _)) == [fd \in Fd |-> [dir \in Dirs |-> f(fd, dir) # 0]]

InterestCall(op, fd, dir, ret, before) ==
    [op |-> op, fd |-> fd, dir |-> dir, ret |-> ret, before |-> before]

RECURSIVE ListOf(_)
ListOf(S) == IF S = {} THEN <<>> ELSE <<SetMin(S)>> \o ListOf(S \ {SetMin(S)})

InitInterestSepoll ==
    /\ Only({"sepoll"})
    /\ \E e \in [Fd -> 0..15], lazy \in SUBSET Fd :
          LET listed == ListOf({fd \in Fd : InSpecList(e[fd])} \cup lazy)
          IN  /\ \A fd \in lazy : ~InSpecList(e[fd])
              /\ fdtab = [fd \in Fd |->
                            [state |-> FD_STREADY, e |-> e[fd],
                             s1 |-> IF \E i \in DOMAIN listed : listed[i] = fd
                                    THEN CHOOSE i \in DOMAIN listed : listed[i] = fd
                                    ELSE 0]]
              /\ spec_list = [i \in 0..(NFd - 1) |->
                                IF i + 1 \in DOMAIN listed THEN listed[i + 1] ELSE 0]
              /\ nbspec = Len(listed)
              /\ epoll = [fd \in Fd |-> InPollList(e[fd])]
              /\ hist = [on_closed |-> {}, lazy |-> lazy, fresh |-> {}, due |-> {},
                         walked |-> {}, read |-> {}, refused |-> {}, call |-> <<>>]
    /\ fd_created = 0
    /\ last_skipped = 0
    /\ spec_processed = 0
    /\ poll = PollIdle

InitInterestKqueue ==
    /\ Only({"kqueue"})
    /\ \E evts \in [Dirs -> SUBSET Fd] :
          kq = [fd_evts |-> evts,
                kernel |-> {<<fd, dir>> \in Fd \X Dirs : fd \in evts[dir]},
                call |-> <<>>]

InitInterest == InitInterestSepoll \/ InitInterestKqueue

SepollCalls(op, fd, dir, es, ret) ==
    /\ kq = <<>>
    /\ EpApply([es EXCEPT !.hist.call =
                   InterestCall(op, fd, dir, ret,
                                IsSetMap(LAMBDA f, d : __fd_is_set(Ep, f, d)))])
    /\ UNCHANGED <<rest_ep, last_skipped, spec_processed, poll>>

SepollSet(fd, dir) ==
    SepollCalls("set", fd, dir, __fd_set(Ep, fd, dir), __fd_set_ret(Ep, fd, dir))

SepollClr(fd, dir) ==
    SepollCalls("clr", fd, dir, __fd_clr(Ep, fd, dir), __fd_clr_ret(Ep, fd, dir))

KqueueCalls(op, fd, dir, r) ==
    /\ kq # <<>>
    /\ kq' = [r.k EXCEPT !.call =
                 InterestCall(op, fd, dir, r.ret,
                              IsSetMap(LAMBDA f, d : kqueue_fd_is_set(kq, f, d)))]
    /\ UNCHANGED rest_kq

KqueueSet(fd, dir) == KqueueCalls("set", fd, dir, kqueue_fd_set(kq, fd, dir))

KqueueClr(fd, dir) == KqueueCalls("clr", fd, dir, kqueue_fd_clr(kq, fd, dir))

NextInterest ==
    \/ \E fd \in Fd, dir \in Dirs : SepollSet(fd, dir)
    \/ \E fd \in Fd, dir \in Dirs : SepollClr(fd, dir)
    \/ \E fd \in Fd, dir \in Dirs : KqueueSet(fd, dir)
    \/ \E fd \in Fd, dir \in Dirs : KqueueClr(fd, dir)

SpecInterest == InitInterest /\ [][NextInterest]_vars

\* ------------------------------------------------ tcp_connect_server
\* c is the state that one call of tcp_connect_server works on: the stream
\* interface si and its target, the settings of the server and of the
\* backend, the socket, fdinfo[fd] and fdtab[fd], the free ports of the
\* server's source port range. c.mine is the set of ports that the call has
\* allocated and not released, c.binds the number of tcp_bind_socket calls,
\* c.cause what made the call end.
BindAttempts == 10
Ports == 1..NPorts
TargTypes == {"TARG_TYPE_PROXY", "TARG_TYPE_SERVER", "TARG_TYPE_APPLET"}
ConnectTimeouts == {0, 2000}
Errnos == {"0", "EINPROGRESS", "EALREADY", "EISCONN",
           "EAGAIN", "EADDRINUSE", "ETIMEDOUT", "ECONNREFUSED"}

\* common/ticks.h: tick_add_ifset, with ticks far from the wrap of the counter
tick_add_ifset(now, timeout) == IF timeout = 0 THEN 0 ELSE now + timeout

\* proto/port_range.h: a release with no range or no port does nothing
port_range_release_port(c) ==
    IF c.fdinfo.port_range /\ c.fdinfo.local_port # 0
    THEN [c EXCEPT !.free = @ \cup {c.fdinfo.local_port},
                   !.mine = @ \ {c.fdinfo.local_port}]
    ELSE c

\* port_range_release_port(fdinfo[fd].port_range, fdinfo[fd].local_port);
\* fdinfo[fd].port_range = NULL;
release_port(c) == [port_range_release_port(c) EXCEPT !.fdinfo.port_range = FALSE]

returns(c, err, cause) == [c EXCEPT !.pc = "done", !.ret = err, !.cause = cause]

\* the switch on si->target.type
tcs_target(c) ==
    IF c.type \in {"TARG_TYPE_PROXY", "TARG_TYPE_SERVER"}
    THEN [c EXCEPT !.pc = "socket"]
    ELSE returns(c, "SN_ERR_INTERNAL", "type")

\* whether a source is bound: the server's first, the backend's next
binds_source(c) ==
    IF c.type = "TARG_TYPE_SERVER" /\ c.srv_bind_src THEN "server"
    ELSE IF c.be_bind_src THEN "backend"
    ELSE "none"

\* socket(), the test of global.maxsock, fcntl() and setsockopt()
tcs_socket(c, how) ==
    CASE how = "socket_fails" -> returns(c, "SN_ERR_RESOURCE", how)
      [] how = "over_maxsock" ->
            returns([c EXCEPT !.sock = "closed"], "SN_ERR_PRXCOND", how)
      [] how = "fcntl_fails" ->
            returns([c EXCEPT !.sock = "closed"], "SN_ERR_INTERNAL", how)
      [] how = "ok" ->
            [c EXCEPT !.sock = "open",
                      !.pc = IF binds_source(c) = "none" THEN "connect" ELSE "bind"]

\* "if (ret)" after the binding with the server's source
tcs_bind_failed(c) ==
    returns([release_port(c) EXCEPT !.sock = "closed"], "SN_ERR_RESOURCE", "bind")

\* bind_loop_turn that keeps the port of the failed attempt
bind_loop_turn_no_release(c, port, ret) ==
    IF c.attempts = 0 THEN tcs_bind_failed(c)
    ELSE IF port = 0
    THEN tcs_bind_failed([c EXCEPT !.attempts = @ - 1, !.fdinfo.local_port = 0])
    ELSE LET c2 == [c EXCEPT !.attempts = @ - 1,
                             !.fdinfo = [port_range |-> TRUE, local_port |-> port],
                             !.free = @ \ {port},
                             !.mine = @ \cup {port},
                             !.binds = @ + 1]
         IN  IF ret # 0 THEN c2 ELSE [c2 EXCEPT !.pc = "connect"]

\* one turn of the do-while loop over the ports of srv->sport_range, port
\* being what port_range_alloc_port returns and ret what tcp_bind_socket
\* returns; the turn that leaves the loop with a failure includes "if (ret)"
bind_loop_turn(c, port, ret) ==
    LET c1 == release_port(c)
    IN  IF c1.attempts = 0 THEN tcs_bind_failed(c1)
        ELSE IF port = 0
        THEN tcs_bind_failed([c1 EXCEPT !.attempts = @ - 1, !.fdinfo.local_port = 0])
        ELSE LET c2 == [c1 EXCEPT !.attempts = @ - 1,
                                  !.fdinfo = [port_range |-> TRUE, local_port |-> port],
                                  !.free = @ \ {port},
                                  !.mine = @ \cup {port},
                                  !.binds = @ + 1]
             IN  IF ret # 0 THEN c2 ELSE [c2 EXCEPT !.pc = "connect"]

\* the binding without port range, with the server's or the backend's source
bind_once(c, ret) ==
    LET c1 == [c EXCEPT !.binds = @ + 1]
    IN  IF ret = 0 THEN [c1 EXCEPT !.pc = "connect"]
        ELSE IF binds_source(c) = "server" THEN tcs_bind_failed(c1)
        ELSE returns([c1 EXCEPT !.sock = "closed"], "SN_ERR_RESOURCE", "bind")

\* connect_outcome that takes EISCONN for a failure
connect_outcome_eisconn_fails(errno) ==
    CASE errno \in {"0", "EINPROGRESS", "EALREADY"} -> "SN_ERR_NONE"
      [] errno \in {"EAGAIN", "EADDRINUSE"} -> "SN_ERR_RESOURCE"
      [] errno = "ETIMEDOUT" -> "SN_ERR_SRVTO"
      [] OTHER -> "SN_ERR_SRVCL"

\* what tcp_connect_server returns for the errno of connect()
connect_outcome(errno) ==
    CASE errno \in {"0", "EINPROGRESS", "EALREADY", "EISCONN"} -> "SN_ERR_NONE"
      [] errno \in {"EAGAIN", "EADDRINUSE"} -> "SN_ERR_RESOURCE"
      [] errno = "ETIMEDOUT" -> "SN_ERR_SRVTO"
      [] OTHER -> "SN_ERR_SRVCL"

\* connect() and what follows. With no server (target proxy), the send_log of
\* the EAGAIN and EADDRINUSE branch reads srv->id through the NULL srv: the
\* call then returns (null_read = "returns") or the process is killed
tcs_connect(c, errno, null_read) ==
    IF connect_outcome(errno) = "SN_ERR_NONE"
    THEN [c EXCEPT !.pc = "done", !.ret = "SN_ERR_NONE", !.cause = errno,
                   !.fdtab = [state |-> "FD_STCONN", owner |-> "si"],
                   !.inserted = TRUE,
                   !.wr_set = TRUE,
                   !.si = [state |-> "SI_ST_CON",
                           exp |-> tick_add_ifset(c.now, c.timeout_connect)]]
    ELSE LET c1 == [release_port(c) EXCEPT !.sock = "closed"]
         IN  IF /\ errno \in {"EAGAIN", "EADDRINUSE"}
                /\ c.type = "TARG_TYPE_PROXY"
                /\ null_read = "killed"
             THEN [c1 EXCEPT !.pc = "killed", !.cause = errno]
             ELSE returns(c1, connect_outcome(errno), errno)

\* before the call: the stream interface has its target assigned, the fd
\* that socket() will return is closed and holds no port, other connections
\* of the server hold the ports of the range that are not free
InitConnect ==
    /\ Only({"connect"})
    /\ \E type \in TargTypes, sb, sr, bb \in BOOLEAN, t \in ConnectTimeouts,
          free \in SUBSET Ports :
          conn = [pc |-> "call", type |-> type, srv_bind_src |-> sb, sport_range |-> sr,
                  be_bind_src |-> bb, timeout_connect |-> t, now |-> 5000,
                  free |-> free, mine |-> {}, sock |-> "none",
                  fdinfo |-> [port_range |-> FALSE, local_port |-> 0],
                  attempts |-> BindAttempts, binds |-> 0,
                  ret |-> "none", cause |-> "none",
                  fdtab |-> [state |-> "FD_STCLOSE", owner |-> "none"],
                  inserted |-> FALSE, wr_set |-> FALSE,
                  si |-> [state |-> "SI_ST_ASS", exp |-> 0]]

TcsStep(c) == conn' = c /\ UNCHANGED rest_conn

TcsTarget == conn.pc = "call" /\ TcsStep(tcs_target(conn))

TcsSocket(how) == conn.pc = "socket" /\ TcsStep(tcs_socket(conn, how))

TcsBindRange(port, ret) ==
    /\ conn.pc = "bind"
    /\ binds_source(conn) = "server" /\ conn.sport_range
    /\ LET free == release_port(conn).free
       IN  IF conn.attempts = 0 \/ free = {} THEN port = 0 /\ ret = 1
           ELSE port \in free
    /\ TcsStep(bind_loop_turn(conn, port, ret))

TcsBindOnce(ret) ==
    /\ conn.pc = "bind"
    /\ ~(binds_source(conn) = "server" /\ conn.sport_range)
    /\ TcsStep(bind_once(conn, ret))

TcsConnect(errno, null_read) ==
    /\ conn.pc = "connect"
    /\ TcsStep(tcs_connect(conn, errno, null_read))

NextConnect ==
    \/ TcsTarget
    \/ \E how \in {"socket_fails", "over_maxsock", "fcntl_fails", "ok"} : TcsSocket(how)
    \/ \E port \in Ports \cup {0}, ret \in {0, 1, 2} : TcsBindRange(port, ret)
    \/ \E ret \in {0, 1, 2} : TcsBindOnce(ret)
    \/ \E errno \in Errnos, null_read \in {"returns", "killed"} :
          TcsConnect(errno, null_read)

SpecConnect == InitConnect /\ [][NextConnect]_vars

\* ------------------------------------------------ start_proxies
\* proxies.p[k] is the k-th proxy of the list "proxy", with its state and the
\* states of its listeners in the order of curproxy->listen. An error code
\* of common/errors.h is the set of its flags.
PxIds == 1..NPx
ERR_NONE == {}
ERR_CODE == {"ERR_RETRYABLE", "ERR_FATAL", "ERR_ABORT"}
NotCalled == {"not called"}
BindHows == {"ok", "reuseaddr", "socket", "nonblock", "maxsock", "bind"}

\* what tcp_bind_listener does to a listener in state st and what it
\* returns, how being the first system call that fails
tcp_bind_listener(st, how) ==
    IF st # "LI_ASSIGNED" THEN [state |-> st, err |-> ERR_NONE]
    ELSE CASE how = "socket" ->
                [state |-> st, err |-> {"ERR_RETRYABLE", "ERR_ALERT"}]
           [] how = "maxsock" ->
                [state |-> st, err |-> {"ERR_FATAL", "ERR_ABORT", "ERR_ALERT"}]
           [] how = "nonblock" ->
                [state |-> st, err |-> {"ERR_FATAL", "ERR_ALERT"}]
           [] how = "bind" ->
                [state |-> st, err |-> {"ERR_RETRYABLE", "ERR_ALERT"}]
           [] how = "reuseaddr" ->
                [state |-> "LI_LISTEN", err |-> {"ERR_ALERT"}]
           [] OTHER ->
                [state |-> "LI_LISTEN", err |-> ERR_NONE]

\* the loop over the listeners of one proxy, from listener i on: a is
\* [listen, lerr, err, pxerr], lerr[i] being what the bind of listener i
\* has returned
RECURSIVE start_listeners_forgets_retryable(_, _, _)
start_listeners_forgets_retryable(a, how, i) ==
    IF i > Len(a.listen) THEN a
    ELSE IF a.listen[i] # "LI_ASSIGNED"
    THEN start_listeners_forgets_retryable(a, how, i + 1)
    ELSE LET r == tcp_bind_listener(a.listen[i], how[i])
             a1 == [a EXCEPT !.listen[i] = r.state,
                             !.lerr[i] = r.err,
                             !.err = @ \cup r.err]
         IN  IF r.err \cap {"ERR_ABORT", "ERR_FATAL"} # {}
             THEN [a1 EXCEPT !.pxerr = TRUE]
             ELSE start_listeners_forgets_retryable(a1, how, i + 1)

RECURSIVE start_listeners(_, _, _)
start_listeners(a, how, i) ==
    IF i > Len(a.listen) THEN a
    ELSE IF a.listen[i] # "LI_ASSIGNED" THEN start_listeners(a, how, i + 1)
    ELSE LET r == tcp_bind_listener(a.listen[i], how[i])
             a1 == [a EXCEPT !.listen[i] = r.state,
                             !.lerr[i] = r.err,
                             !.err = @ \cup r.err]
         IN  IF r.err \cap {"ERR_ABORT", "ERR_FATAL"} # {}
             THEN [a1 EXCEPT !.pxerr = TRUE]
             ELSE IF r.err \cap ERR_CODE # {}
             THEN start_listeners([a1 EXCEPT !.pxerr = TRUE], how, i + 1)
             ELSE start_listeners(a1, how, i + 1)

\* the loop over the proxies, from proxy k on: s is [p, lerr, err]
RECURSIVE start_proxies(_, _, _)
start_proxies(s, how, k) ==
    IF k > NPx THEN s
    ELSE IF s.p[k].state # "PR_STNEW" THEN start_proxies(s, how, k + 1)
    ELSE LET a == start_listeners([listen |-> s.p[k].listen, lerr |-> s.lerr[k],
                                   err |-> s.err, pxerr |-> FALSE], how[k], 1)
             s1 == [s EXCEPT !.p[k].listen = a.listen,
                             !.p[k].state = IF a.pxerr THEN @ ELSE "PR_STREADY",
                             !.lerr[k] = a.lerr,
                             !.err = a.err]
         IN  IF "ERR_ABORT" \in s1.err THEN s1 ELSE start_proxies(s1, how, k + 1)

NoBinds == [k \in PxIds |-> [i \in 1..NLi |-> NotCalled]]

\* after the configuration is parsed: the proxies are new, or stopped when
\* disabled, and their listeners are assigned to their protocol
InitStart ==
    /\ Only({"proxies"})
    /\ \E st \in [PxIds -> {"PR_STNEW", "PR_STSTOPPED"}], n \in [PxIds -> 0..NLi] :
          LET p0 == [k \in PxIds |->
                        [state |-> st[k], listen |-> [i \in 1..n[k] |-> "LI_ASSIGNED"]]]
          IN  proxies = [p |-> p0, before |-> p0, lerr |-> NoBinds,
                         err |-> ERR_NONE, starts |-> 0]

\* one call of start_proxies; main() calls it again after retryable errors
StartProxies(how) ==
    /\ proxies.starts < MaxStarts
    /\ LET s == start_proxies([p |-> proxies.p, lerr |-> NoBinds, err |-> ERR_NONE],
                              how, 1)
       IN  proxies' = [p |-> s.p, before |-> proxies.p, lerr |-> s.lerr,
                       err |-> s.err, starts |-> proxies.starts + 1]
    /\ UNCHANGED rest_proxies

NextStart == \E how \in [PxIds -> [1..NLi -> BindHows]] : StartProxies(how)

SpecStart == InitStart /\ [][NextStart]_vars

\* ------------------------------------------------ manage_proxy, soft_stop
\* proxies.p[k] is a proxy with its task: woken when the task is in the run
\* queue, expire the date at which the scheduler wakes it. proxies.run
\* describes the run of manage_proxy that has led to the state, if one has.
TICK_ETERNITY == 0
PrStates == {"PR_STNEW", "PR_STREADY", "PR_STFULL", "PR_STPAUSED", "PR_STSTOPPED",
             "PR_STERROR"}
LiStates == <<"LI_NEW", "LI_INIT", "LI_ASSIGNED", "LI_PAUSED", "LI_LISTEN",
              "LI_READY", "LI_FULL">>
li_rank(st) == CHOOSE i \in 1..Len(LiStates) : LiStates[i] = st
li_at_least(st, min) == li_rank(st) >= li_rank(min)

\* common/ticks.h, with ticks far from the wrap of the counter
tick_add(now, timeout) == IF now + timeout = TICK_ETERNITY THEN 1 ELSE now + timeout
tick_first(t1, t2) ==
    IF t1 = TICK_ETERNITY THEN t2
    ELSE IF t2 = TICK_ETERNITY THEN t1
    ELSE IF t1 - t2 <= 0 THEN t1 ELSE t2

\* protocols.c: a listener that has a socket loses it and is assigned again;
\* an assigned listener is taken off its protocol
unbind_listener(st) == IF li_at_least(st, "LI_PAUSED") THEN "LI_ASSIGNED" ELSE st
delete_listener(st) == IF st = "LI_ASSIGNED" THEN "LI_INIT" ELSE st

\* the loop of stop_proxy, from listener i on: a is [listen, listeners, jobs]
RECURSIVE stop_listeners(_, _)
stop_listeners(a, i) ==
    IF i > Len(a.listen) THEN a
    ELSE LET st == unbind_listener(a.listen[i])
         IN  IF li_at_least(st, "LI_ASSIGNED")
             THEN stop_listeners([a EXCEPT !.listen[i] = delete_listener(st),
                                           !.listeners = @ - 1,
                                           !.jobs = @ - 1], i + 1)
             ELSE stop_listeners([a EXCEPT !.listen[i] = st], i + 1)

stop_proxy(s, k) ==
    LET a == stop_listeners([listen |-> s.p[k].listen, listeners |-> s.listeners,
                             jobs |-> s.jobs], 1)
    IN  [s EXCEPT !.p[k].listen = a.listen,
                  !.p[k].state = "PR_STSTOPPED",
                  !.listeners = a.listeners,
                  !.jobs = a.jobs]

\* "out:" of manage_proxy: the task is queued again with its new date
manage_out(s, k, next) == [s EXCEPT !.p[k].expire = next, !.p[k].woken = FALSE]

\* manage_rate_limit that lets the listeners go while the limiter blocks
manage_rate_limit_dequeues(s, k, next, wait) ==
    IF s.p[k].fe_sps_lim # 0 /\ wait # 0
    THEN manage_out([s EXCEPT !.p[k].queue = {}], k,
                    tick_first(next, tick_add(s.now, wait)))
    ELSE manage_out([s EXCEPT !.p[k].queue = {}], k, next)

\* the end of manage_proxy, for a frontend below maxconn: wait is what
\* next_event_delay returns if it is called, dequeue_all_listeners empties
\* the queue
manage_rate_limit(s, k, next, wait) ==
    IF s.p[k].fe_sps_lim # 0 /\ wait # 0
    THEN manage_out(s, k, tick_first(next, tick_add(s.now, wait)))
    ELSE manage_out([s EXCEPT !.p[k].queue = {}], k, next)

\* manage_frontend that makes full whatever is not full
manage_frontend_fills_any(s, k, next, wait) ==
    LET p == s.p[k]
    IN  IF ~p.cap_fe THEN manage_out(s, k, next)
        ELSE IF p.feconn >= p.maxconn
        THEN manage_out([s EXCEPT !.p[k].state = "PR_STFULL"], k, next)
        ELSE manage_rate_limit(
                 [s EXCEPT !.p[k].state = IF @ = "PR_STFULL" THEN "PR_STREADY" ELSE @],
                 k, next, wait)

\* the part of manage_proxy that is for frontends
manage_frontend(s, k, next, wait) ==
    LET p == s.p[k]
    IN  IF ~p.cap_fe THEN manage_out(s, k, next)
        ELSE IF p.feconn >= p.maxconn
        THEN manage_out([s EXCEPT !.p[k].state =
                                     IF @ = "PR_STREADY" THEN "PR_STFULL" ELSE @],
                        k, next)
        ELSE manage_rate_limit(
                 [s EXCEPT !.p[k].state = IF @ = "PR_STFULL" THEN "PR_STREADY" ELSE @],
                 k, next, wait)

\* manage_proxy that stops a proxy without looking at stop_time
manage_proxy_no_grace(s, k, wait) ==
    LET p == s.p[k]
    IN  IF s.stopping /\ p.state # "PR_STSTOPPED"
        THEN manage_frontend(stop_proxy(s, k), k, TICK_ETERNITY, wait)
        ELSE manage_frontend(s, k, TICK_ETERNITY, wait)

manage_proxy(s, k, wait) ==
    LET p == s.p[k]
    IN  IF s.stopping /\ p.state # "PR_STSTOPPED"
        THEN IF tick_remain(s.now, p.stop_time) = 0
             THEN manage_frontend(stop_proxy(s, k), k, TICK_ETERNITY, wait)
             ELSE manage_frontend(s, k, tick_first(TICK_ETERNITY, p.stop_time), wait)
        ELSE manage_frontend(s, k, TICK_ETERNITY, wait)

\* soft_stop with no peers section: every proxy that is not stopped gets its
\* stop_time, every proxy's task is woken up
soft_stop(s) ==
    [s EXCEPT !.stopping = TRUE,
              !.p = [k \in PxIds |->
                        [@[k] EXCEPT !.stop_time =
                                        IF s.p[k].state # "PR_STSTOPPED"
                                        THEN tick_add(s.now, s.p[k].grace) ELSE @,
                                     !.woken = TRUE]]]

NoRun == [k |-> 0]

\* a configured proxy in state st: a frontend has NLi listeners, whose state
\* follows the proxy's; queued tells whether its listeners wait in
\* listener_queue
ManagedProxy(st, fe, feconn, lim, grace, queued) ==
    [state |-> st, cap_fe |-> fe, feconn |-> feconn, maxconn |-> 1,
     fe_sps_lim |-> lim, grace |-> grace, stop_time |-> TICK_ETERNITY,
     listen |-> [i \in 1..(IF fe THEN NLi ELSE 0) |->
                    CASE st = "PR_STNEW" -> "LI_ASSIGNED"
                      [] st = "PR_STSTOPPED" -> "LI_INIT"
                      [] st \in {"PR_STPAUSED", "PR_STERROR"} -> "LI_PAUSED"
                      [] OTHER -> "LI_READY"],
     queue |-> IF fe /\ queued /\ st \in {"PR_STREADY", "PR_STFULL"}
               THEN 1..NLi ELSE {},
     expire |-> TICK_ETERNITY, woken |-> FALSE]

\* the listeners that count as jobs
RECURSIVE CountJobs(_, _)
CountJobs(p, k) ==
    IF k > NPx THEN 0
    ELSE CountJobs(p, k + 1)
         + Cardinality({i \in 1..Len(p[k].listen) :
                           li_at_least(p[k].listen[i], "LI_ASSIGNED")})

Managed(p, now, stopping) ==
    [now |-> now, stopping |-> stopping, jobs |-> CountJobs(p, 1),
     listeners |-> CountJobs(p, 1), p |-> p, run |-> NoRun]

\* the process before any soft stop, with the proxies' tasks asleep: the
\* proxies are backends, frontends or frontends with a session-rate limit
InitStop ==
    /\ Only({"proxies"})
    /\ \E st \in [PxIds -> PrStates], grace \in [PxIds -> {0, MaxGrace}],
          fe \in BOOLEAN, lim \in 0..1 :
          /\ ~fe => lim = 0
          /\ proxies = Managed([k \in PxIds |->
                                    ManagedProxy(st[k], fe, 0, lim, grace[k], FALSE)],
                                0, FALSE)

\* the process when the tasks of all its proxies are in the run queue, before
\* or after a soft stop; a soft stop has given each proxy that was not
\* stopped a stop_time, reached or not
InitManage ==
    /\ Only({"proxies"})
    /\ \E st \in [PxIds -> PrStates], fe \in [PxIds -> BOOLEAN],
          feconn \in [PxIds -> 0..1], left \in [PxIds -> {0, MaxGrace}],
          lim \in 0..1, queued, stopping \in BOOLEAN :
          /\ ~stopping => \A k \in PxIds : left[k] = 0
          /\ proxies = Managed(
                 [k \in PxIds |->
                     [ManagedProxy(st[k], fe[k], feconn[k], lim, MaxGrace, queued)
                        EXCEPT !.woken = TRUE,
                               !.stop_time = IF stopping THEN MaxNow + left[k]
                                             ELSE TICK_ETERNITY]],
                 MaxNow, stopping)

\* the scheduler runs the task of proxy k
ManageProxy(k, wait) ==
    /\ proxies.p[k].woken
    /\ proxies' = [manage_proxy(proxies, k, wait) EXCEPT
                      !.run = [k |-> k, before |-> proxies.p[k], jobs |-> proxies.jobs,
                               wait |-> wait]]
    /\ UNCHANGED rest_proxies

\* the signal of the soft stop, once and early enough for every grace to end
SoftStop ==
    /\ ~proxies.stopping
    /\ proxies.now + MaxGrace <= MaxNow
    /\ proxies' = [soft_stop(proxies) EXCEPT !.run = NoRun]
    /\ UNCHANGED rest_proxies

\* a millisecond passes
TimePasses ==
    /\ proxies.now < MaxNow
    /\ proxies' = [proxies EXCEPT !.now = @ + 1, !.run = NoRun]
    /\ UNCHANGED rest_proxies

\* the scheduler moves the task of proxy k to the run queue at its date
WakeExpired(k) ==
    /\ ~proxies.p[k].woken
    /\ tick_is_expired(proxies.p[k].expire, proxies.now)
    /\ proxies' = [proxies EXCEPT !.p[k].woken = TRUE, !.run = NoRun]
    /\ UNCHANGED rest_proxies

NextManage == \E k \in PxIds, wait \in 0..MaxWait : ManageProxy(k, wait)

SpecManage == InitManage /\ [][NextManage]_vars

NextStop ==
    \/ SoftStop
    \/ TimePasses
    \/ \E k \in PxIds : WakeExpired(k)
    \/ \E k \in PxIds, wait \in 0..MaxWait : ManageProxy(k, wait)

\* one turn of the event loop: time passes, an expired task is woken up or
\* a task of the run queue is run
LoopTurn ==
    \/ TimePasses
    \/ \E k \in PxIds : WakeExpired(k)
    \/ \E k \in PxIds, wait \in 0..MaxWait : ManageProxy(k, wait)

\* the event loop goes on as long as it has something to do
FairStop == WF_vars(LoopTurn)

SpecStop == InitStop /\ [][NextStop]_vars /\ FairStop

\* ------------------------------------------------ _do_init, _do_fork, _do_term
\* pollers.p[be] is the entry of a back-end in pollers[] with the statics of
\* its file: fd is epoll_fd or kqueue_fd, held the kernel handles that are
\* open, arrays the arrays that are allocated, ret what its last function
\* has returned, failed whether an init or a fork of it has failed.
\* pollers.opened counts the kernel handles created so far, a new handle
\* being named by its rank.
Backends == {"sepoll", "kqueue"}
SepollInitHows == {"ok", "epoll_create", "epoll_events", "spec_list"}
KqueueInitHows == {"ok", "kqueue", "kev", "fd_evts_rd", "fd_evts_wr"}

\* after _do_register
Registered(pref) ==
    [pref |-> pref, fd |-> -1, held |-> {}, arrays |-> {}, ret |-> 1, failed |-> FALSE]

\* close(fd); fd = -1
close_handle(p) == [p EXCEPT !.held = @ \ {p.fd}, !.fd = -1]

\* "fail_fd:" of both _do_init
init_fail_fd(p) == [p EXCEPT !.pref = 0, !.ret = 0, !.failed = TRUE]

\* sepoll_do_init that leaves epoll_events allocated when spec_list fails
sepoll_do_init_keeps_events(p, how, h) ==
    IF how = "epoll_create" THEN init_fail_fd(p)
    ELSE LET p1 == [p EXCEPT !.fd = h, !.held = @ \cup {h}]
         IN  CASE how = "epoll_events" -> init_fail_fd(close_handle(p1))
               [] how = "spec_list" ->
                     init_fail_fd(close_handle([p1 EXCEPT !.arrays = {"epoll_events"}]))
               [] OTHER ->
                     [p1 EXCEPT !.arrays = {"epoll_events", "spec_list"}, !.ret = 1]

\* _do_init of ev_sepoll.c, how being the step that fails and h the handle
\* that epoll_create returns
sepoll_do_init(p, how, h) ==
    IF how = "epoll_create" THEN init_fail_fd(p)
    ELSE LET p1 == [p EXCEPT !.fd = h, !.held = @ \cup {h}]
         IN  CASE how = "epoll_events" -> init_fail_fd(close_handle(p1))
               [] how = "spec_list" ->
                     init_fail_fd(close_handle(
                         [[p1 EXCEPT !.arrays = {"epoll_events"}]
                             EXCEPT !.arrays = @ \ {"epoll_events"}]))
               [] OTHER ->
                     [p1 EXCEPT !.arrays = {"epoll_events", "spec_list"}, !.ret = 1]

\* _do_init of ev_kqueue.c
kqueue_do_init(p, how, h) ==
    IF how = "kqueue" THEN init_fail_fd(p)
    ELSE LET p1 == [p EXCEPT !.fd = h, !.held = @ \cup {h}]
             kev == [p1 EXCEPT !.arrays = {"kev"}]
             rd == [kev EXCEPT !.arrays = @ \cup {"fd_evts_rd"}]
             fail_revt(q) == init_fail_fd(close_handle([q EXCEPT !.arrays = @ \ {"kev"}]))
         IN  CASE how = "kev" -> init_fail_fd(close_handle(p1))
               [] how = "fd_evts_rd" -> fail_revt(kev)
               [] how = "fd_evts_wr" ->
                     fail_revt([rd EXCEPT !.arrays = @ \ {"fd_evts_rd"}])
               [] OTHER ->
                     [rd EXCEPT !.arrays = @ \cup {"fd_evts_wr"}, !.ret = 1]

do_init(be, p, how, h) ==
    IF be = "sepoll" THEN sepoll_do_init(p, how, h) ELSE kqueue_do_init(p, how, h)

\* _do_fork of both files: ok tells whether the kernel gives a new handle h
do_fork(p, ok, h) ==
    LET p1 == IF p.fd >= 0 THEN [p EXCEPT !.held = @ \ {p.fd}] ELSE p
    IN  IF ok THEN [p1 EXCEPT !.fd = h, !.held = @ \cup {h}, !.ret = 1]
        ELSE [p1 EXCEPT !.fd = -1, !.ret = 0]

\* _do_term of both files
do_term(p) ==
    LET p1 == IF p.fd >= 0 THEN close_handle(p) ELSE p
    IN  [p1 EXCEPT !.arrays = {}, !.pref = 0]

\* fd.c, fork_poller: the back-end whose fork fails loses its preference
fork_poller(p, ok, h) ==
    LET p1 == do_fork(p, ok, h)
    IN  IF p1.ret # 0 THEN p1 ELSE [do_term(p1) EXCEPT !.ret = 0, !.failed = TRUE]

InitPollers ==
    /\ Only({"pollers"})
    /\ pollers = [p |-> [be \in Backends |->
                            Registered(IF be = "sepoll" THEN 400 ELSE 300)],
                  cur |-> "none", opened |-> 0, last |-> [op |-> "register"]]

\* fd.c, init_pollers: a back-end with a preference is selected and its
\* _do_init is called; it becomes the current poller when that succeeds
InitPoller(be, how) ==
    /\ pollers.cur = "none"
    /\ pollers.p[be].pref > 0
    /\ pollers.opened < MaxHandles
    /\ how \in IF be = "sepoll" THEN SepollInitHows ELSE KqueueInitHows
    /\ LET h == pollers.opened + 1
           p1 == do_init(be, pollers.p[be], how, h)
       IN  pollers' = [pollers EXCEPT !.p[be] = p1,
                                      !.cur = IF p1.ret # 0 THEN be ELSE @,
                                      !.opened = IF p1.held # {} THEN h ELSE @,
                                      !.last = [op |-> "init", be |-> be, how |-> how]]
    /\ UNCHANGED rest_pollers

\* a child process reopens the kernel handle of the current poller
ForkPoller(ok) ==
    /\ pollers.cur # "none"
    /\ pollers.p[pollers.cur].pref > 0
    /\ pollers.opened < MaxHandles
    /\ LET be == pollers.cur
           h == pollers.opened + 1
       IN  pollers' = [pollers EXCEPT !.p[be] = fork_poller(@, ok, h),
                                      !.opened = IF ok THEN h ELSE @,
                                      !.last = [op |-> "fork", be |-> be, ok |-> ok]]
    /\ UNCHANGED rest_pollers

\* the process ends and terminates its current poller; a new selection may
\* follow
TermPoller ==
    /\ pollers.cur # "none"
    /\ pollers' = [pollers EXCEPT !.p[pollers.cur] = do_term(@),
                                  !.cur = "none",
                                  !.last = [op |-> "term", be |-> pollers.cur]]
    /\ UNCHANGED rest_pollers

NextPollers ==
    \/ \E be \in Backends, how \in SepollInitHows \cup KqueueInitHows : InitPoller(be, how)
    \/ \E ok \in BOOLEAN : ForkPoller(ok)
    \/ TermPoller

SpecPollers == InitPollers /\ [][NextPollers]_vars

\* ------------------------------------------------- servers coming back
\* A round-robin backend of two active servers without maxconn, configured
\* with user weights 1 or 2. Callers ask for the next server; servers go
\* down, come back and change their effective weight, the backend being told
\* through a hook meant for the change.
KeyUWeights == {1, 2}
KeyEWeights == {0, 1, 16, 32}

InitKeys ==
    \E uw \in [Srv -> KeyUWeights] :
        LET st == InitBackend(BE_LB_ALGO_RR, {},
                              [s \in Srv |-> ConfiguredServer(FALSE, uw[s], 0)])
        IN  /\ srv = st.srv /\ px = st.px /\ tree = st.tree /\ grp = st.grp
            /\ last = NoCall
            /\ nnotify = 0
            /\ picks = <<>>
            /\ Only({"backend"})

KeyNotify(s, running, w, h) ==
    LET sv == srv[s]
        st1 == [Cur EXCEPT !.srv[s].state = IF running THEN sv.state \cup {SRV_RUNNING}
                                                       ELSE sv.state \ {SRV_RUNNING},
                           !.srv[s].eweight = w]
    IN  /\ nnotify < MaxRekeys
        /\ nnotify' = nnotify + 1
        /\ st1.srv[s] # sv
        /\ HookHandles(h, srv_is_usable(sv.state, sv.eweight),
                        srv_is_usable(st1.srv[s].state, w))
        /\ Apply(CallHook(h, st1, s))
        /\ last' = [op |-> h, avoid |-> NULL, ret |-> s]
        /\ UNCHANGED picks
        /\ UNCHANGED rest_lb

KeySelect ==
    /\ last.op # "fault"
    /\ Len(picks) < MaxKeyPicks
    /\ Selected(fwrr_get_next_server(Cur, NULL))
    /\ UNCHANGED nnotify

NextKeys ==
    \/ \E s \in Srv, running \in BOOLEAN, w \in KeyEWeights, h \in Hooks :
          KeyNotify(s, running, w, h)
    \/ KeySelect

SpecKeys == InitKeys /\ [][NextKeys]_vars

\* ------------------------------------------------- the rotation goes on
\* The round-robin pool of three active servers again, weighted in list order
\* and static from then on, with callers that never stop asking for the next
\* server: picks keeps the last next_weight selections only.
Recent(q, n) == IF Len(q) > n THEN SubSeq(q, Len(q) - n + 1, Len(q)) ELSE q

RotSelect ==
    LET r == fwrr_get_next_server(Cur, NULL) IN
    /\ nnotify + 1 \notin ScnSrv
    /\ last.op # "fault"
    /\ Apply(r.st)
    /\ last' = [op |-> IF r.fault THEN "fault" ELSE "next", avoid |-> NULL, ret |-> r.ret]
    /\ picks' = Recent(Append(picks, r.ret), grp["act"].next_weight)
    /\ UNCHANGED nnotify
    /\ UNCHANGED rest_lb

NextRotate ==
    \/ \E w \in RoundEWeights : RndWeigh(w)
    \/ RotSelect

\* The configuration is read to its end, and requests keep coming: there is
\* always another call of fwrr_get_next_server that moves the rotation on.
FairRotate ==
    /\ WF_vars(\E w \in RoundEWeights : RndWeigh(w))
    /\ []<><<RotSelect>>_vars

SpecRotate == InitRound /\ [][NextRotate]_vars /\ FairRotate

\* ------------------------------------------------ pause_proxies, resume_proxies
\* protocols.c: pausing a listener that has a socket shuts the socket down,
\* which the system may refuse; a listener without socket has nothing to
\* pause. ok tells whether the system accepts.
pause_listener(st, ok) ==
    IF ~li_at_least(st, "LI_LISTEN") THEN [state |-> st, ret |-> 1]
    ELSE IF ok THEN [state |-> "LI_PAUSED", ret |-> 1]
    ELSE [state |-> st, ret |-> 0]

\* protocols.c: a paused listener listens again when the system accepts; a
\* listener that has never had a socket cannot be resumed
resume_listener(st, ok) ==
    IF ~li_at_least(st, "LI_PAUSED") THEN [state |-> st, ret |-> 0]
    ELSE IF st # "LI_PAUSED" THEN [state |-> st, ret |-> 1]
    ELSE IF ok THEN [state |-> "LI_READY", ret |-> 1]
    ELSE [state |-> st, ret |-> 0]

\* the loop of pause_proxy, from listener i on: a is [listen, state]
RECURSIVE pause_listeners(_, _, _)
pause_listeners(a, oks, i) ==
    IF i > Len(a.listen) THEN a
    ELSE LET r == pause_listener(a.listen[i], oks[i])
         IN  pause_listeners([a EXCEPT !.listen[i] = r.state,
                                       !.state = IF r.ret = 0 THEN "PR_STERROR" ELSE @],
                             oks, i + 1)

pause_proxy(s, k, oks) ==
    LET a == pause_listeners([listen |-> s.p[k].listen, state |-> s.p[k].state],
                             oks, 1)
    IN  [s EXCEPT !.p[k].listen = a.listen,
                  !.p[k].state = IF a.state # "PR_STERROR" THEN "PR_STPAUSED"
                                 ELSE a.state]

\* pause_proxies that pauses the proxies whatever their state
RECURSIVE pause_proxies_any_state(_, _, _, _)
pause_proxies_any_state(s, oks, err, k) ==
    IF k > NPx THEN IF err THEN soft_stop(s) ELSE s
    ELSE IF s.p[k].cap_fe
    THEN LET s1 == pause_proxy(s, k, oks[k])
         IN  pause_proxies_any_state(s1, oks, err \/ s1.p[k].state # "PR_STPAUSED",
                                     k + 1)
    ELSE pause_proxies_any_state(s, oks, err, k + 1)

\* the loop of pause_proxies with no peers section, from proxy k on, and
\* its end: err tells whether a proxy has failed to pause so far
RECURSIVE pause_proxies(_, _, _, _)
pause_proxies(s, oks, err, k) ==
    IF k > NPx THEN IF err THEN soft_stop(s) ELSE s
    ELSE IF /\ s.p[k].cap_fe
            /\ s.p[k].state \notin {"PR_STERROR", "PR_STSTOPPED", "PR_STPAUSED"}
    THEN LET s1 == pause_proxy(s, k, oks[k])
         IN  pause_proxies(s1, oks, err \/ s1.p[k].state # "PR_STPAUSED", k + 1)
    ELSE pause_proxies(s, oks, err, k + 1)

\* the loop of resume_proxies over the listeners of a proxy, from listener i
\* on, left at the first listener that fails: a is [listen, fail]
RECURSIVE resume_listeners(_, _, _)
resume_listeners(a, oks, i) ==
    IF i > Len(a.listen) THEN a
    ELSE LET r == resume_listener(a.listen[i], oks[i])
         IN  IF r.ret = 0 THEN [a EXCEPT !.fail = TRUE]
             ELSE resume_listeners([a EXCEPT !.listen[i] = r.state], oks, i + 1)

\* the loop of resume_proxies, from proxy k on: roks is what the system
\* answers to the listeners that resume, poks to those paused again
RECURSIVE resume_proxies(_, _, _, _)
resume_proxies(s, roks, poks, k) ==
    IF k > NPx THEN s
    ELSE IF s.p[k].state = "PR_STPAUSED"
    THEN LET a == resume_listeners([listen |-> s.p[k].listen, fail |-> FALSE],
                                   roks[k], 1)
             s1 == [s EXCEPT !.p[k].listen = a.listen, !.p[k].state = "PR_STREADY"]
         IN  resume_proxies(IF a.fail THEN pause_proxy(s1, k, poks[k]) ELSE s1,
                            roks, poks, k + 1)
    ELSE resume_proxies(s, roks, poks, k + 1)

\* what a signal or the start-up has just done to the proxies
SigRun(op) == [k |-> 0, op |-> op]
LastOp == IF "op" \in DOMAIN proxies.run THEN proxies.run.op ELSE "none"

\* what the binds of a start return: nothing, a retryable error or an error
\* that aborts the start
LifeHows == {"ok", "bind", "maxsock"}

\* after the configuration is parsed: the first proxy is a frontend with its
\* listeners, the others are frontends or backends; a proxy is new, or
\* stopped when disabled; the proxies have no grace, or one that does not
\* end before the process is looked at
InitLife ==
    /\ Only({"proxies"})
    /\ \E st \in [PxIds -> {"PR_STNEW", "PR_STSTOPPED"}], fe \in [PxIds -> BOOLEAN],
          grace \in {0, MaxGrace} :
          /\ fe[1]
          /\ proxies = Managed([k \in PxIds |->
                                   [ManagedProxy("PR_STNEW", fe[k], 0, 0, grace, FALSE)
                                      EXCEPT !.state = st[k]]],
                               1, FALSE)

\* the answers of the system that an operation may ask for: start_proxies
\* binds the assigned listeners of the new proxies, pause_proxies pauses the
\* listeners that have a socket in the frontends it pauses, resume_proxies
\* deals with the paused proxies only. The answers that no operation asks
\* for are left at their first value.
StartAsks(k, i) ==
    /\ proxies.p[k].state = "PR_STNEW"
    /\ i <= Len(proxies.p[k].listen)
    /\ proxies.p[k].listen[i] = "LI_ASSIGNED"
PauseAsks(k, i) ==
    /\ proxies.p[k].cap_fe
    /\ proxies.p[k].state \notin {"PR_STERROR", "PR_STSTOPPED", "PR_STPAUSED"}
    /\ i <= Len(proxies.p[k].listen)
    /\ li_at_least(proxies.p[k].listen[i], "LI_LISTEN")
ResumeAsks(k, i) ==
    /\ proxies.p[k].state = "PR_STPAUSED"
    /\ i <= Len(proxies.p[k].listen)

\* main() starts the proxies, again after retryable errors
LifeStart(how) ==
    /\ \A k \in PxIds, i \in 1..NLi : StartAsks(k, i) \/ how[k][i] = "ok"
    /\ proxies' = [proxies EXCEPT
                      !.p = start_proxies([p |-> proxies.p, lerr |-> NoBinds,
                                           err |-> ERR_NONE], how, 1).p,
                      !.run = SigRun("start")]
    /\ UNCHANGED rest_proxies

\* a session comes to the frontend or leaves it: feconn crosses maxconn and
\* the task of the proxy is woken up
LifeConn(k) ==
    /\ proxies.p[k].cap_fe
    /\ proxies.p[k].state \in {"PR_STREADY", "PR_STFULL"}
    /\ proxies' = [proxies EXCEPT !.p[k].feconn = 1 - @, !.p[k].woken = TRUE,
                                  !.run = NoRun]
    /\ UNCHANGED rest_proxies

\* SIGTTOU
LifePause(oks) ==
    /\ \A k \in PxIds, i \in 1..NLi : PauseAsks(k, i) \/ oks[k][i]
    /\ proxies' = [pause_proxies(proxies, oks, FALSE, 1) EXCEPT
                      !.run = SigRun("pause")]
    /\ UNCHANGED rest_proxies

\* SIGTTIN; the loop over the listeners of a proxy ends at the first one
\* that does not resume: at[k] is the rank of the listener of proxy k that
\* the system does not resume, 0 when it resumes them all, and poks is what
\* the system answers to the listeners that are paused again
LifeResume(at) ==
    /\ \A k \in PxIds : at[k] = 0 \/ ResumeAsks(k, at[k])
    /\ \E poks \in [PxIds -> [1..NLi -> BOOLEAN]] :
          /\ \A k \in PxIds, i \in 1..NLi :
                (ResumeAsks(k, i) /\ at[k] # 0) \/ poks[k][i]
          /\ proxies' = [resume_proxies(proxies,
                                        [k \in PxIds |-> [i \in 1..NLi |-> i # at[k]]],
                                        poks, 1)
                           EXCEPT !.run = SigRun("resume")]
    /\ UNCHANGED rest_proxies

\* SIGUSR1, at any time and any number of times
LifeSoftStop ==
    /\ proxies' = [soft_stop(proxies) EXCEPT !.run = SigRun("soft_stop")]
    /\ UNCHANGED rest_proxies

\* stop_proxy on one proxy: a disabled proxy at the end of the start-up, or
\* any proxy when the process goes down
LifeStop(k) ==
    /\ proxies' = [stop_proxy(proxies, k) EXCEPT !.run = SigRun("stop")]
    /\ UNCHANGED rest_proxies

\* the scheduler runs the task of proxy k, which has no session-rate limit
LifeManage(k) ==
    /\ proxies.p[k].woken
    /\ proxies' = [manage_proxy(proxies, k, 0) EXCEPT !.run = SigRun("manage")]
    /\ UNCHANGED rest_proxies

NextLife ==
    \/ \E how \in [PxIds -> [1..NLi -> LifeHows]] : LifeStart(how)
    \/ \E k \in PxIds : LifeConn(k)
    \/ \E oks \in [PxIds -> [1..NLi -> BOOLEAN]] : LifePause(oks)
    \/ \E at \in [PxIds -> 0..NLi] : LifeResume(at)
    \/ LifeSoftStop
    \/ \E k \in PxIds : LifeStop(k)
    \/ \E k \in PxIds : LifeManage(k)

SpecLife == InitLife /\ [][NextLife]_vars

\* ============================================================ properties
\* what the properties say about the servers of the backend
Usable(s) == srv_is_usable(srv[s].state, srv[s].eweight)
IsBackup(s) == SRV_BACKUP \in srv[s].state
UsableActive == {s \in Srv : Usable(s) /\ ~IsBackup(s)}
UsableBackup == {s \in Srv : Usable(s) /\ IsBackup(s)}

RECURSIVE SumEweight(_)
SumEweight(S) ==
    IF S = {} THEN 0
    ELSE LET s == CHOOSE x \in S : TRUE IN srv[s].eweight + SumEweight(S \ {s})

\* the number of tree nodes, over all the roots, that are server s's lb_node
RECURSIVE CountIn(_, _)
CountIn(q, s) ==
    IF q = <<>> THEN 0 ELSE (IF Head(q).s = s THEN 1 ELSE 0) + CountIn(Tail(q), s)

RECURSIVE LinksIn(_, _)
LinksIn(T, s) ==
    IF T = {} THEN 0
    ELSE LET r == CHOOSE x \in T : TRUE IN CountIn(tree[r], s) + LinksIn(T \ {r}, s)

Links(s) == LinksIn(TreeNames, s)

\* C1: under least-connections, after the init function and any notified
\* changes, tot_wact is the sum of the effective weights of the usable
\* non-backup servers and tot_wbck that of the usable backup servers.
C1_LcTotals ==
    px.algo = BE_LB_ALGO_LC =>
        /\ px.tot_wact = SumEweight(UsableActive)
        /\ px.tot_wbck = SumEweight(UsableBackup)

\* two changes were notified, one of them a weight change of a running server
C1_Witness ==
    /\ px.algo = BE_LB_ALGO_LC
    /\ nnotify = MaxNotify
    /\ px.tot_wact = 2
    /\ px.tot_wbck = BE_WEIGHT_SCALE
    /\ \E s \in Srv : ~Usable(s) \/ srv[s].eweight = 2

\* C2: under round-robin, each group's next_weight is the sum of the effective
\* weights of the group's usable servers, and tot_wact and tot_wbck equal the
\* next_weight of the active and of the backup group.
C2_RrTotals ==
    px.algo = BE_LB_ALGO_RR =>
        /\ grp["act"].next_weight = SumEweight(UsableActive)
        /\ grp["bck"].next_weight = SumEweight(UsableBackup)
        /\ px.tot_wact = grp["act"].next_weight
        /\ px.tot_wbck = grp["bck"].next_weight

\* an active and a backup server were brought up with different weights
C2_Witness ==
    /\ px.algo = BE_LB_ALGO_RR
    /\ nnotify = MaxNotify
    /\ grp["act"].next_weight = 2
    /\ grp["bck"].next_weight = 1

\* C3: under both algorithms srv_act is the number of usable non-backup
\* servers and srv_bck the number of usable backup servers, and neither is
\* ever negative.
C3_Counts ==
    /\ px.srv_act = Cardinality(UsableActive)
    /\ px.srv_bck = Cardinality(UsableBackup)
    /\ px.srv_act >= 0
    /\ px.srv_bck >= 0

\* a configured server went down and the other one had its weight changed
C3_Witness ==
    /\ nnotify = MaxNotify
    /\ px.srv_act = 1
    /\ px.srv_bck = 0
    /\ \E s \in Srv : srv[s].uweight = 1 /\ ~Usable(s) /\ IsBackup(s)
    /\ \E s \in Srv : srv[s].eweight = 2 /\ Usable(s)

\* C4: under both algorithms, after every hook and every get_next_server, a
\* server is linked in at most one tree, and a server that is not usable is in
\* no tree and has lb_tree NULL.
C4_OneTree ==
    \A s \in Srv :
        /\ Links(s) <= 1
        /\ ~Usable(s) => Links(s) = 0 /\ srv[s].lb_tree = NULLTREE

\* get_next_server has just returned a linked server while a server that the
\* init function had queued is down
C4_Witness ==
    /\ last.op = "next"
    /\ last.ret # NULL
    /\ Links(last.ret) = 1
    /\ \E s \in Srv : srv[s].uweight = 1 /\ ~Usable(s) /\ srv[s].lb_tree = NULLTREE

\* the roots of the active and of the backup servers, and the servers linked
\* under a set of roots
ActRoots == {"lc_act", "act_curr", "act_t0", "act_t1"}
BckRoots == {"lc_bck", "bck_curr", "bck_t0", "bck_t1"}
LinkedUnder(T) == {s \in Srv : LinksIn(T, s) > 0}

Saturated(s) ==
    srv[s].maxconn # 0
    /\ (srv[s].served >= srv_dynamic_maxconn(Cur, s) \/ srv[s].nbpend > 0)

\* where get_next_server takes its server from
Source ==
    IF px.srv_act > 0 THEN "act"
    ELSE IF px.fbck # NULL THEN "fbck"
    ELSE IF px.srv_bck > 0 THEN "bck"
    ELSE "none"

SourceRoots == IF Source = "act" THEN ActRoots ELSE IF Source = "bck" THEN BckRoots ELSE {}

\* C5: get_next_server takes its server from the active tree/group when
\* srv_act > 0; otherwise it returns fbck when fbck is set (which it is only
\* with backup-all mode off), whatever the trees hold; otherwise it takes it
\* from the backup tree/group when srv_bck > 0; otherwise it returns NULL.
C5_SourcePriority ==
    last.op = "next" =>
        IF px.srv_act > 0 THEN last.ret \in LinkedUnder(ActRoots) \cup {NULL}
        ELSE IF px.fbck # NULL
        THEN last.ret = px.fbck /\ PR_O_USE_ALL_BK \notin px.options
        ELSE IF px.srv_bck > 0 THEN last.ret \in LinkedUnder(BckRoots) \cup {NULL}
        ELSE last.ret = NULL

\* no active server is usable and fbck is returned although the leftmost node
\* of the backup tree is another server
C5_Witness ==
    /\ last.op = "next"
    /\ px.srv_act = 0
    /\ px.fbck # NULL
    /\ last.ret = px.fbck
    /\ eb32_first(Cur, "lc_bck") \notin {NULL, px.fbck}

\* C6: when every server is unusable, srv_act and srv_bck are 0, fbck is NULL
\* and get_next_server returns NULL whatever server it is told to avoid.
C6_AllUnusableNone ==
    (\A s \in Srv : ~Usable(s)) =>
        /\ px.srv_act = 0
        /\ px.srv_bck = 0
        /\ px.fbck = NULL
        /\ \A a \in Srv \cup {NULL} : get_next_server(Cur, a).ret = NULL
        /\ last.op = "next" => last.ret = NULL

\* the configured backup servers went down one after the other, and
\* get_next_server was then called with a server to avoid
C6_Witness ==
    /\ \A s \in Srv : ~Usable(s) /\ IsBackup(s) /\ srv[s].uweight = 1
    /\ nnotify = MaxNotify
    /\ last.op = "next"
    /\ last.avoid # NULL

Candidates == {s \in LinkedUnder(SourceRoots) : ~Saturated(s)}

\* C8: when get_next_server takes its server from a tree/group, it returns
\* the server to avoid only if the tree/group holds no other server that is
\* not saturated, and then it does return it.
C8_AvoidLastResort ==
    last.op = "next" /\ last.avoid # NULL /\ Source \in {"act", "bck"} =>
        /\ last.ret = last.avoid => Candidates \ {last.avoid} = {}
        /\ Candidates = {last.avoid} => last.ret = last.avoid

\* round-robin returns the server to avoid, the only server of the group that
\* is not saturated
C8_Witness ==
    /\ px.algo = BE_LB_ALGO_RR
    /\ last.op = "next"
    /\ last.avoid # NULL
    /\ last.ret = last.avoid
    /\ Cardinality(LinkedUnder(SourceRoots)) = 2

\* the key fwlc_queue_srv gives server s now
KeyNow(s) == (srv[s].served * SRV_EWGHT_MAX) \div srv[s].eweight

LeftmostActive == Head(tree["lc_act"]).s

\* C9 as claimed: the leftmost node of the least-connections active tree is a
\* server whose served/eweight is not greater than that of any other usable
\* active server.
C9_LeftmostLeastRatio ==
    px.algo = BE_LB_ALGO_LC /\ tree["lc_act"] # <<>> =>
        \A s \in UsableActive :
            srv[LeftmostActive].served * srv[s].eweight
                <= srv[s].served * srv[LeftmostActive].eweight

\* C9: the leftmost node of the least-connections active tree is a usable
\* active server whose key served * SRV_EWGHT_MAX / eweight, in integer
\* division, is not greater than that of any other usable active server.
C9_LeftmostLeastKey ==
    px.algo = BE_LB_ALGO_LC /\ tree["lc_act"] # <<>> =>
        /\ LeftmostActive \in UsableActive
        /\ \A s \in UsableActive : KeyNow(LeftmostActive) <= KeyNow(s)

\* two usable active servers, each serving one connection, have different
\* weights and the same key, and get_next_server has just been called
C9_Witness ==
    /\ Cardinality(UsableActive) = 2
    /\ \A s \in UsableActive : srv[s].served = 1 /\ KeyNow(s) = 0
    /\ \E s \in UsableActive : srv[s].eweight # srv[LeftmostActive].eweight
    /\ last.op = "next"

\* the servers of the scenario have the effective weights 1, 2 and 4
ScnWeighed == srv[1].eweight = 1 /\ srv[2].eweight = 2 /\ srv[3].eweight = 4 /\ nnotify = 3

\* C10 as claimed: the seven selections return A, B, C, C, C, C, B.
C10_ClaimedSequence ==
    ScnWeighed /\ Len(picks) >= 7 => SubSeq(picks, 1, 7) = <<1, 2, 3, 3, 3, 3, 2>>

ScnExpected == <<1, 2, 3, 3, 2, 3, 3>>

\* C10: with A, B, C of effective weights 1, 2, 4, not serving and queued in
\* that order, seven selections each followed by take-connection return
\* A, B, C, C, B, C, C: A once, B twice and C four times.
C10_Sequence ==
    ScnWeighed =>
        /\ picks = <<>> /\ last.op = "none" =>
                /\ \A s \in ScnSrv : srv[s].served = 0
                /\ tree["lc_act"] = <<[s |-> 1, key |-> 0], [s |-> 2, key |-> 0],
                                      [s |-> 3, key |-> 0]>>
        /\ \A i \in 1..Len(picks) : i <= Len(ScnExpected) => picks[i] = ScnExpected[i]
        /\ Len(picks) >= Len(ScnExpected) =>
                /\ Cardinality({i \in 1..Len(ScnExpected) : picks[i] = 1}) = 1
                /\ Cardinality({i \in 1..Len(ScnExpected) : picks[i] = 2}) = 2
                /\ Cardinality({i \in 1..Len(ScnExpected) : picks[i] = 3}) = 4

\* the seventh selection of the scenario has been taken
C10_Witness == ScnWeighed /\ Len(picks) = 7 /\ srv[3].served = 4

\* the keys of the nodes of server s in the trees of state st
StoredKeys(st, s) ==
    UNION {{st.tree[r][i].key : i \in {j \in 1..Len(st.tree[r]) : st.tree[r][j].s = s}} :
           r \in TreeNames}

\* the state after server_drop_conn on server s
DropFrom(st, s) == fwlc_srv_reposition([st EXCEPT !.srv[s].served = @ - 1], s)

\* C11: under least-connections, when a take-connection step leaves server s
\* in its tree, it moves s to another sort key, and the drop-connection that
\* follows gives s the sort key it had before the take-connection.
C11_TakeDropRestoresKey ==
    [][\A s \in Srv :
          (/\ px.algo = BE_LB_ALGO_LC
           /\ srv[s].lb_tree # NULLTREE
           /\ srv'[s].served = srv[s].served + 1
           /\ srv'[s].lb_tree # NULLTREE)
          => /\ StoredKeys([srv |-> srv', px |-> px', tree |-> tree', grp |-> grp'], s)
                    # StoredKeys(Cur, s)
             /\ StoredKeys(DropFrom([srv |-> srv', px |-> px', tree |-> tree',
                                     grp |-> grp'], s), s) = StoredKeys(Cur, s)]_vars

\* a linked server of weight 2 has taken a connection and moved to key 128
C11_Witness ==
    /\ px.algo = BE_LB_ALGO_LC
    /\ \E s \in Srv : /\ srv[s].lb_tree # NULLTREE
                      /\ srv[s].served = 1
                      /\ srv[s].eweight = 2
                      /\ StoredKeys(Cur, s) = {128}

\* the pool of the round-robin scenario is static: every server has been
\* given its weight
RndStatic == nnotify = 3

\* how many of the selections from..to returned server s
Returns(s, from, to) == Cardinality({i \in from..to : i <= Len(picks) /\ picks[i] = s})

\* the static pool X (server 1, eweight 3), Y (server 2, eweight 1), with
\* next_weight = 4
RndPoolXY ==
    /\ RndStatic
    /\ srv[1].eweight = 3 /\ srv[2].eweight = 1 /\ srv[3].eweight = 0
    /\ grp["act"].next_weight = 4

\* C12 as claimed: with X of weight 3 and Y of weight 1, the first four
\* selections return X three times and Y once, Y not last, and the next four
\* repeat them.
C12_YNotLast ==
    RndPoolXY /\ Len(picks) >= 4
        => /\ Returns(1, 1, 4) = 3
           /\ Returns(2, 1, 4) = 1
           /\ picks[4] # 2
           /\ Len(picks) >= 8 => SubSeq(picks, 5, 8) = SubSeq(picks, 1, 4)

\* C12: with X of weight 3 and Y of weight 1, the first four selections are
\* X, X, X, Y (X three times and Y once, Y in the last position), and the
\* next four repeat them.
C12_Sequence ==
    RndPoolXY =>
        /\ Len(picks) <= 8 => picks = SubSeq(<<1, 1, 1, 2, 1, 1, 1, 2>>, 1, Len(picks))
        /\ Len(picks) >= 8 => SubSeq(picks, 5, 8) = SubSeq(picks, 1, 4)

C12_Witness == RndPoolXY /\ Len(picks) = 8 /\ picks[4] = 2 /\ picks[8] = 2

\* the total effective weight of the round-robin pool
RndTotal == px.tot_wact

RECURSIVE GCD(_, _)
GCD(a, b) == IF b = 0 THEN a ELSE GCD(b, a % b)

RndGcd == GCD(GCD(srv[1].eweight, srv[2].eweight), srv[3].eweight)

\* C13 as claimed: after sum(eweight) selections against the static pool each
\* server has been returned eweight / gcd(eweights) times.
C13_DividedByGcd ==
    RndStatic /\ RndTotal > 0 /\ Len(picks) >= RndTotal
        => \A s \in ScnSrv : Returns(s, 1, RndTotal) = srv[s].eweight \div RndGcd

Abs(x) == IF x < 0 THEN -x ELSE x

\* C13: in the first sum(eweight) selections against the static pool, and in
\* any sum(eweight) consecutive selections after them, each server is
\* returned eweight times give or take one.
C13_CycleClosure ==
    RndStatic /\ RndTotal > 0
        => \A from \in 1..MaxRound :
              from + RndTotal - 1 <= Len(picks)
                  => \A s \in ScnSrv :
                        Abs(Returns(s, from, from + RndTotal - 1) - srv[s].eweight) <= 1

C13_Witness ==
    /\ RndStatic /\ RndTotal = 8 /\ Len(picks) = RndTotal
    /\ srv[1].eweight = 2 /\ Returns(1, 1, RndTotal) = 1
    /\ srv[2].eweight = 3 /\ Returns(2, 1, RndTotal) = 4
    /\ srv[3].eweight = 3 /\ Returns(3, 1, RndTotal) = 3

\* the backend after the step
CurNext == [srv |-> srv', px |-> px', tree |-> tree', grp |-> grp']

\* the usable non-backup servers of backend st
usable_active(st) ==
    {s \in DOMAIN st.srv : /\ srv_is_usable(st.srv[s].state, st.srv[s].eweight)
                           /\ SRV_BACKUP \notin st.srv[s].state}

\* C14: when a usable active server B goes down and the backend is told
\* through the status-down hook, tot_wact decreases by B's previous eweight,
\* srv_act by one, B is in no tree and its tree handle is none, and the next
\* get_next_server call does not return B: it returns a remaining usable
\* active server whenever there is one.
C14_StatusDown ==
    [][\A s \in DOMAIN srv :
          (s \in usable_active(Cur) /\ s \notin usable_active(CurNext))
          => /\ px'.tot_wact = px.tot_wact - srv[s].eweight
             /\ px'.srv_act = px.srv_act - 1
             /\ srv'[s].lb_tree = NULLTREE
             /\ \A r \in TreeNames : CountIn(tree'[r], s) = 0
             /\ get_next_server(CurNext, NULL).ret # s
             /\ usable_active(CurNext) # {}
                    => get_next_server(CurNext, NULL).ret \in usable_active(CurNext)]_vars

\* the pool {A(1), B(2)} after B went down, under round robin: tot_wact went
\* from 3 to 1, srv_act is 1, and the next call returned A
C14_Witness ==
    /\ px.algo = BE_LB_ALGO_RR
    /\ srv[1].eweight = 1 /\ srv[2].eweight = 2 /\ srv[3].eweight = 0
    /\ nnotify = 4 /\ SRV_RUNNING \notin srv[2].state /\ srv[2].lb_tree = NULLTREE
    /\ px.tot_wact = 1 /\ px.srv_act = 1
    /\ last.op = "next" /\ last.ret = 1 /\ picks # <<>> /\ picks[Len(picks)] = 1

\* the step makes backup server t usable while the backend is in
\* single-backup mode, has no usable active server, and fbck is another server
SecondBackupUp(t) ==
    /\ PR_O_USE_ALL_BK \notin px.options
    /\ px.srv_act = 0
    /\ px.fbck # NULL /\ px.fbck # t
    /\ SRV_BACKUP \in srv[t].state
    /\ ~srv_is_usable(srv[t].state, srv[t].eweight)
    /\ srv_is_usable(srv'[t].state, srv'[t].eweight)

\* C15 as claimed: whichever second backup T becomes usable, fbck remains S
\* and get_next_server returns S.
C15_FbckRemains ==
    [][\A t \in DOMAIN srv :
          SecondBackupUp(t)
          => /\ px'.fbck = px.fbck
             /\ get_next_server(CurNext, NULL).ret = px.fbck]_vars

\* C15: when a second backup T becomes usable, fbck remains S and
\* get_next_server returns S if T comes after S in the server list; if T
\* comes before S, fbck becomes T and get_next_server returns T.
C15_FbckFirstInList ==
    [][\A t \in DOMAIN srv :
          SecondBackupUp(t)
          => /\ px'.fbck = (IF t > px.fbck THEN px.fbck ELSE t)
             /\ get_next_server(CurNext, NULL).ret = px'.fbck]_vars

\* both backups are usable after the hooks brought them up, fbck is the first
\* of the list, and get_next_server returned it
C15_Witness ==
    /\ px.algo = BE_LB_ALGO_RR
    /\ PR_O_USE_ALL_BK \notin px.options
    /\ px.srv_act = 0 /\ px.srv_bck = 2 /\ nnotify = 2
    /\ \A s \in Srv : SRV_BACKUP \in srv[s].state /\ srv_is_usable(srv[s].state, srv[s].eweight)
    /\ px.fbck = 1
    /\ last.op = "next" /\ last.ret = 1

\* ------------------------------------------------ the speculative poller
\* the slots of spec_list in use
Slots == 0..(nbspec - 1)

\* C16: between the operations of the speculative poller, every fd whose event
\* word has a spec bit in either direction has a back-index s1 in 1..nbspec
\* with spec_list[s1 - 1] = fd, and no fd is twice in spec_list[0..nbspec-1].
C16_SpecBitListed ==
    poll.pc = "idle" =>
        /\ \A fd \in Fd : InSpecList(fdtab[fd].e) =>
              /\ fdtab[fd].s1 \in 1..nbspec
              /\ spec_list[fdtab[fd].s1 - 1] = fd
        /\ \A i, j \in Slots : spec_list[i] = spec_list[j] => i = j

\* _do_poll has returned and left a closed fd, which is not in the spec list,
\* with the spec bit and the poll bit of the read direction
C16_Witness ==
    /\ poll.pc = "idle"
    /\ \E fd \in Fd :
          /\ fdtab[fd].state = FD_STCLOSE
          /\ DirState(fdtab[fd].e, DIR_RD) = FD_EV_STOP
          /\ fdtab[fd].s1 = 0

\* C17 as claimed: between the operations of the speculative poller, every
\* slot of spec_list[0..nbspec-1] holds an fd whose event word has a spec bit.
C17_SlotHasSpecBit ==
    poll.pc = "idle" => \A i \in Slots : InSpecList(fdtab[spec_list[i]].e)

\* C17: every slot of spec_list[0..nbspec-1] holds an open fd whose back-index
\* is the slot's index plus one, and whose event word has a spec bit unless
\* __fd_set or __fd_clr took its last spec bit away since the spec walk last
\* passed over it; at the end of the first spec walk of a _do_poll every slot
\* holds an fd with a spec bit.
C17_SlotListedOrLazy ==
    /\ \A i \in Slots :
          LET fd == spec_list[i]
          IN  /\ fd \in Fd
              /\ fdtab[fd].state # FD_STCLOSE
              /\ fdtab[fd].s1 = i + 1
              /\ InSpecList(fdtab[fd].e) \/ fd \in hist.lazy
    /\ poll.pc = "walk" /\ poll.spec_idx = 0 /\ ~poll.looping =>
          \A i \in Slots : InSpecList(fdtab[spec_list[i]].e)

\* an fd that epoll watches was stopped and set again between two polls: it
\* is in the spec list with no spec bit
C17_Witness ==
    /\ poll.pc = "idle"
    /\ \E i \in Slots :
          LET fd == spec_list[i]
          IN  /\ ~InSpecList(fdtab[fd].e)
              /\ DirState(fdtab[fd].e, DIR_RD) = FD_EV_WAIT
              /\ DIR_RD \in epoll[fd]
              /\ fd \in hist.lazy

\* C18: no read or write callback is called for a closed fd, in the spec walk
\* and in the dispatch of the events of epoll_wait.
C18_NoCallbackOnClosed == hist.on_closed = {}

\* in the spec walk, the write callback of an fd has been called after its
\* read callback closed it
C18_Witness ==
    /\ poll.pc = "walk"
    /\ \E fd \in Fd : <<fd, DIR_WR>> \in hist.on_closed /\ fdtab[fd].state = FD_STCLOSE

\* the walk over the new fds has ended
ReWalkDone == poll.pc = "walk" /\ poll.looping /\ poll.spec_idx = 0

\* C21: when the callbacks of the dispatch of the events of epoll_wait have
\* put fds in the SPEC state, the walk over the new fds that follows visits
\* exactly these fds and calls the read callback of each of them before
\* _do_poll returns.
C21_ReWalkVisitsFresh ==
    ReWalkDone /\ hist.due # {} =>
        /\ hist.walked = hist.due
        /\ hist.due \subseteq hist.read

\* the walk over the new fds has ended without a visit to the fd that an
\* accept of the dispatch created
C21_Witness ==
    /\ ReWalkDone
    /\ \E fd \in hist.due :
          /\ fd \notin hist.walked
          /\ DirState(fdtab[fd].e, DIR_RD) = FD_EV_SPEC
          /\ hist.walked # {}

\* ------------------------------------------------ set and clear
\* the last interest call of the poller in use, and what is_set says now
TheCall == IF kq = <<>> THEN hist.call ELSE kq.call
IsSetNow ==
    IF kq = <<>> THEN IsSetMap(LAMBDA f, d : __fd_is_set(Ep, f, d))
    ELSE IsSetMap(LAMBDA f, d : kqueue_fd_is_set(kq, f, d))

\* C22: in both pollers, set(fd, dir) returns non-zero exactly when
\* is_set(fd, dir) was false before and leaves it true, clear(fd, dir) returns
\* non-zero exactly when is_set(fd, dir) was true before and leaves it false,
\* and is_set is unchanged for the other direction and for the other fds.
C22_InterestContract ==
    TheCall # <<>> =>
        LET c == TheCall
        IN  /\ c.op = "set" =>
                 /\ c.ret # 0 <=> ~c.before[c.fd][c.dir]
                 /\ IsSetNow[c.fd][c.dir]
            /\ c.op = "clr" =>
                 /\ c.ret # 0 <=> c.before[c.fd][c.dir]
                 /\ ~IsSetNow[c.fd][c.dir]
            /\ \A fd \in Fd, dir \in Dirs :
                 <<fd, dir>> # <<c.fd, c.dir>> => IsSetNow[fd][dir] = c.before[fd][dir]

\* the speculative poller has set a stopped direction, which is polled again,
\* while the other direction of the fd stays set
C22_Witness ==
    /\ kq = <<>>
    /\ TheCall # <<>>
    /\ TheCall.op = "set" /\ TheCall.ret = 1 /\ TheCall.dir = DIR_RD
    /\ DirState(fdtab[TheCall.fd].e, DIR_RD) = FD_EV_WAIT
    /\ TheCall.before[TheCall.fd][DIR_WR]
    /\ IsSetNow[TheCall.fd][DIR_WR]

\* ------------------------------------------------ tcp_connect_server
\* the call has ended with an error
TcsFailed == conn.cause \notin {"none", "0", "EINPROGRESS", "EALREADY", "EISCONN"}

\* the error that the claim gives to each cause
TcsError(cause) ==
    CASE cause = "type" -> "SN_ERR_INTERNAL"
      [] cause = "socket_fails" -> "SN_ERR_RESOURCE"
      [] cause = "over_maxsock" -> "SN_ERR_PRXCOND"
      [] cause = "fcntl_fails" -> "SN_ERR_INTERNAL"
      [] cause = "bind" -> "SN_ERR_RESOURCE"
      [] cause \in {"EAGAIN", "EADDRINUSE"} -> "SN_ERR_RESOURCE"
      [] cause = "ETIMEDOUT" -> "SN_ERR_SRVTO"
      [] OTHER -> "SN_ERR_SRVCL"

\* C23: for both target types, tcp_connect_server answers each failure with
\* its error: internal for an unsupported target (without socket), resource
\* for socket(), proxy-condition over maxsock, resource for the source bind,
\* resource for EAGAIN and EADDRINUSE of connect(), server-timeout for
\* ETIMEDOUT, server-closed for the other errors; and on every error return
\* the socket is closed, no port is allocated, the fd is not registered and
\* the stream interface's state is unchanged.
C23_ErrorOutcomes ==
    TcsFailed =>
        /\ conn.pc = "done"
        /\ conn.ret = TcsError(conn.cause)
        /\ conn.cause = "type" => conn.sock = "none"
        /\ conn.sock # "open"
        /\ conn.mine = {} /\ ~conn.fdinfo.port_range
        /\ ~conn.inserted /\ ~conn.wr_set
        /\ conn.si.state = "SI_ST_ASS"

\* the target is a proxy, connect() has failed with EAGAIN, and the call has
\* not returned
C23_Witness ==
    /\ conn.pc = "killed"
    /\ conn.type = "TARG_TYPE_PROXY"
    /\ conn.cause = "EAGAIN"
    /\ conn.sock = "closed"

\* C24: tcp_connect_server returns SN_ERR_NONE exactly when connect() succeeds
\* or fails with EINPROGRESS, EALREADY or EISCONN; then fdtab[fd] is in state
\* FD_STCONN and owned by the stream interface, the fd is inserted with write
\* interest, the stream interface is in SI_ST_CON and expires at now plus the
\* backend's connect timeout, never if there is none.
C24_Success ==
    conn.pc = "done" =>
        /\ conn.ret = "SN_ERR_NONE" <=>
              conn.cause \in {"0", "EINPROGRESS", "EALREADY", "EISCONN"}
        /\ conn.ret = "SN_ERR_NONE" =>
              /\ conn.fdtab = [state |-> "FD_STCONN", owner |-> "si"]
              /\ conn.inserted /\ conn.wr_set
              /\ conn.sock = "open"
              /\ conn.si.state = "SI_ST_CON"
              /\ conn.si.exp = IF conn.timeout_connect = 0 THEN 0
                               ELSE conn.now + conn.timeout_connect

\* connect() is in progress and the stream interface expires in 2 seconds
C24_Witness ==
    /\ conn.pc = "done"
    /\ conn.cause = "EINPROGRESS"
    /\ conn.ret = "SN_ERR_NONE"
    /\ conn.si = [state |-> "SI_ST_CON", exp |-> 7000]

\* C25: with a source port range, tcp_connect_server calls tcp_bind_socket at
\* most 10 times and holds at most one port of the range at any moment; it
\* holds none when it has returned an error, and holds one only when it
\* returns success.
C25_PortRange ==
    conn.sport_range /\ binds_source(conn) = "server" =>
        /\ conn.binds <= BindAttempts
        /\ Cardinality(conn.mine) <= 1
        /\ conn.pc = "done" /\ conn.ret # "SN_ERR_NONE" => conn.mine = {}
        /\ conn.pc = "done" /\ conn.mine # {} => conn.ret = "SN_ERR_NONE"
        /\ conn.mine # {} => conn.fdinfo.port_range /\ conn.mine = {conn.fdinfo.local_port}

\* the tenth binding has failed and the call has returned a resource error
\* with both ports of the range free
C25_Witness ==
    /\ conn.pc = "done"
    /\ conn.binds = BindAttempts
    /\ conn.ret = "SN_ERR_RESOURCE"
    /\ conn.cause = "bind"
    /\ conn.mine = {}
    /\ conn.free = Ports

\* ------------------------------------------------ start_proxies
\* the last call has called the bind of listener i of proxy k
BindCalled(k, i) == proxies.lerr[k][i] # NotCalled

\* a bind of proxy k has returned an error code in the last call
BindFailed(k) ==
    \E i \in 1..NLi : BindCalled(k, i) /\ proxies.lerr[k][i] \cap ERR_CODE # {}

\* a bind of a proxy before k has returned ERR_ABORT in the last call
AbortedBefore(k) ==
    \E j \in 1..(k - 1), i \in 1..NLi : "ERR_ABORT" \in proxies.lerr[j][i]

\* C26: a call of start_proxies makes a new proxy ready exactly when no bind
\* of its listeners has returned an error code, and leaves it new otherwise;
\* it leaves alone the proxies that are not new and those after a bind that
\* has returned ERR_ABORT; it binds only listeners in the assigned state; and
\* a proxy that it has made ready has every listener bound.
C26_StartProxies ==
    proxies.starts > 0 =>
        \A k \in PxIds :
            LET b == proxies.before[k]
                a == proxies.p[k]
            IN  /\ b.state = "PR_STNEW" /\ ~AbortedBefore(k) =>
                      /\ a.state = IF BindFailed(k) THEN "PR_STNEW" ELSE "PR_STREADY"
                /\ b.state # "PR_STNEW" \/ AbortedBefore(k) =>
                      /\ a = b
                      /\ \A i \in 1..NLi : ~BindCalled(k, i)
                /\ \A i \in 1..NLi :
                      BindCalled(k, i) =>
                          /\ i <= Len(b.listen)
                          /\ b.listen[i] = "LI_ASSIGNED"
                /\ \A i \in 1..Len(b.listen) :
                      b.listen[i] # "LI_ASSIGNED" => a.listen[i] = b.listen[i]
                /\ a.state = "PR_STREADY" =>
                      \A i \in 1..Len(a.listen) : a.listen[i] = "LI_LISTEN"

\* the second call binds the listener that the first call could not bind,
\* does not call the bind of the other listener, and makes the proxy ready
C26_Witness ==
    /\ proxies.starts = 2
    /\ proxies.before[1] = [state |-> "PR_STNEW", listen |-> <<"LI_ASSIGNED", "LI_LISTEN">>]
    /\ proxies.p[1] = [state |-> "PR_STREADY", listen |-> <<"LI_LISTEN", "LI_LISTEN">>]
    /\ BindCalled(1, 1) /\ ~BindCalled(1, 2)

\* ------------------------------------------------ manage_proxy, soft_stop
\* the state follows a run of manage_proxy on proxy k
Ran(k) == proxies.run.k = k

\* that run has called stop_proxy
RunStopped(k) ==
    /\ Ran(k)
    /\ proxies.stopping
    /\ proxies.run.before.state # "PR_STSTOPPED"
    /\ tick_remain(proxies.now, proxies.run.before.stop_time) = 0

\* the original statement of C27: after each run of manage_proxy on a
\* frontend that was ready or full, the state is full exactly when
\* feconn >= maxconn
C27_FullIffMaxconn ==
    \A k \in PxIds :
        Ran(k) /\ proxies.run.before.cap_fe
               /\ proxies.run.before.state \in {"PR_STREADY", "PR_STFULL"} =>
            (proxies.p[k].state = "PR_STFULL" <=>
                proxies.p[k].feconn >= proxies.p[k].maxconn)

\* C27: after each run of manage_proxy on a frontend that was ready or full,
\* the proxy is stopped if the run has called stop_proxy, and otherwise it
\* is full if feconn >= maxconn and ready if not; a run never makes ready or
\* full a proxy that was new, paused, stopped or in error.
C27_ReadyFull ==
    \A k \in PxIds :
        Ran(k) =>
            LET b == proxies.run.before
                a == proxies.p[k]
            IN  /\ b.cap_fe /\ b.state \in {"PR_STREADY", "PR_STFULL"} =>
                      a.state = IF RunStopped(k) THEN "PR_STSTOPPED"
                                ELSE IF a.feconn >= a.maxconn THEN "PR_STFULL"
                                ELSE "PR_STREADY"
                /\ b.state \notin {"PR_STREADY", "PR_STFULL"} =>
                      a.state \notin {"PR_STREADY", "PR_STFULL"}

\* a run has made ready a full frontend below maxconn, without soft stop
C27_Witness ==
    /\ Ran(1)
    /\ ~proxies.stopping
    /\ proxies.run.before.state = "PR_STFULL"
    /\ proxies.p[1].state = "PR_STREADY"
    /\ proxies.p[1].feconn < proxies.p[1].maxconn

\* C29: a run of manage_proxy empties the listener queue only for a frontend
\* below maxconn that the session-rate limiter admits (no limit, or a wait
\* of 0); with feconn >= maxconn it leaves the queue as it is; when the
\* limiter blocks it leaves the queue as it is and the task expires no later
\* than now + the limiter's wait.
C29_ListenerQueue ==
    \A k \in PxIds :
        Ran(k) =>
            LET b == proxies.run.before
                a == proxies.p[k]
                admits == b.fe_sps_lim = 0 \/ proxies.run.wait = 0
            IN  /\ a.queue # b.queue =>
                      b.cap_fe /\ b.feconn < b.maxconn /\ admits
                /\ b.cap_fe /\ b.feconn < b.maxconn /\ admits => a.queue = {}
                /\ b.cap_fe /\ b.feconn < b.maxconn /\ ~admits =>
                      /\ a.queue = b.queue
                      /\ a.expire # TICK_ETERNITY
                      /\ a.expire <= proxies.now + proxies.run.wait

\* a run has left the queued listeners of a frontend that the limiter blocks
\* and its task expires in one millisecond
C29_Witness ==
    /\ Ran(1)
    /\ proxies.run.before.fe_sps_lim # 0 /\ proxies.run.wait = 1
    /\ proxies.run.before.state = "PR_STFULL"
    /\ proxies.p[1].state = "PR_STREADY"
    /\ proxies.p[1].queue = 1..NLi
    /\ proxies.p[1].expire = proxies.now + 1

\* what a run of manage_proxy does to proxy k during a soft stop: with
\* stop_time reached the proxy is stopped, its listeners are unbound and
\* deleted, and one job is gone for each; otherwise the proxy is not stopped
\* and its task expires no later than stop_time
StoppingRun(k) ==
    LET b == proxies.run.before
        a == proxies.p[k]
    IN  IF tick_remain(proxies.now, b.stop_time) = 0
        THEN /\ a.state = "PR_STSTOPPED"
             /\ \A i \in 1..Len(a.listen) : a.listen[i] = "LI_INIT"
             /\ proxies.jobs = proxies.run.jobs - Len(b.listen)
        ELSE /\ a.state # "PR_STSTOPPED"
             /\ a.listen = b.listen
             /\ proxies.jobs = proxies.run.jobs
             /\ a.expire # TICK_ETERNITY
             /\ a.expire - b.stop_time <= 0

\* a proxy that a soft stop has found not stopped is not stopped before its
\* stop_time, and the runs of its task during the soft stop are as above
GraceKept ==
    \A k \in PxIds :
        /\ proxies.p[k].state = "PR_STSTOPPED"
              /\ proxies.p[k].stop_time # TICK_ETERNITY =>
              proxies.now >= proxies.p[k].stop_time
        /\ proxies.stopping /\ proxies.p[k].state # "PR_STSTOPPED" =>
              proxies.p[k].stop_time # TICK_ETERNITY
        /\ Ran(k) /\ proxies.stopping /\ proxies.run.before.state # "PR_STSTOPPED" =>
              StoppingRun(k)

\* every proxy is stopped, and stays so as nothing leaves the state stopped
AllStopped == \A k \in PxIds : proxies.p[k].state = "PR_STSTOPPED"

InitFailed(be) ==
    /\ pollers.last.op = "init" /\ pollers.last.be = be
    /\ pollers.last.how # "ok"

\* the state follows a failed reopening of the handle of back-end be
ForkFailed(be) ==
    /\ pollers.last.op = "fork" /\ pollers.last.be = be
    /\ ~pollers.last.ok

C19_NoTwoSkips ==
    hist.engine = "sepoll" /\ hist.before = "skipped" => hist.did = "waited"

\* the call after a skipped wait had MIN_RETURN_EVENTS successful entries or
\* more, and waited
C19_Witness ==
    /\ hist.engine = "sepoll"
    /\ hist.before = "skipped"
    /\ hist.did = "waited"
    /\ hist.status >= MIN_RETURN_EVENTS
    /\ hist.status < absmaxevents

\* whether work is pending for the engine at the kernel wait
Pending ==
    \/ hist.run_queue # 0
    \/ hist.signal_queue_len # 0
    \/ hist.engine = "sepoll" /\ (hist.nb # 0 \/ hist.status # 0)

\* C20: the timeout of the kernel wait is zero when work is pending: in the
\* speculative engine when the spec list is not empty, a speculative callback
\* succeeded in this call, or the run queue or the signal queue is not empty,
\* in the kqueue engine when the run queue or the signal queue is not empty.
\* Otherwise it is MAX_DELAY_MS without deadline, zero when the deadline has
\* expired, and else the time to the deadline plus 1 ms, at most MAX_DELAY_MS.
C20_Timeout ==
    hist.did = "waited" =>
        hist.timeout =
            IF Pending THEN 0
            ELSE IF hist.exp = 0 THEN MAX_DELAY_MS
            ELSE IF hist.exp <= hist.now THEN 0
            ELSE SetMin({hist.exp - hist.now + 1, MAX_DELAY_MS})

\* the speculative engine waited with a zero timeout for the only reason that
\* the spec list was not empty, the deadline being far
C20_Witness ==
    /\ hist.engine = "sepoll"
    /\ hist.did = "waited"
    /\ hist.nb # 0 /\ hist.status = 0
    /\ hist.run_queue = 0 /\ hist.signal_queue_len = 0
    /\ hist.exp > hist.now + MAX_DELAY_MS
    /\ hist.timeout = 0

\* ------------------------------------------------ the first-backup pointer
FirstUsableBackup == IF UsableBackup = {} THEN NULL ELSE SetMin(UsableBackup)

C33_KeyRule ==
    px.algo = BE_LB_ALGO_LC =>
        \A r \in LCTrees : \A i \in 1..Len(tree[r]) :
            LET n == tree[r][i] IN
            /\ n.key = KeyNow(n.s)
            /\ (r = "lc_act") <=> ~IsBackup(n.s)

\* after a weight change and a connection taken, an active server serving one
\* connection at eweight 2 is linked with key 128 while a backup server is
\* linked in the backup tree
C33_Witness ==
    /\ px.algo = BE_LB_ALGO_LC
    /\ nnotify > 0
    /\ \E i \in 1..Len(tree["lc_act"]) :
          LET n == tree["lc_act"][i] IN
          srv[n.s].served = 1 /\ srv[n.s].eweight = 2 /\ n.key = 128
    /\ tree["lc_bck"] # <<>>

\* ------------------------------------------------ the hooks called twice
\* server s of the present backend after a change of its running flag and
\* of its effective weight
Changed(s, running, w) ==
    [Cur EXCEPT !.srv[s].state = IF running THEN @ \cup {SRV_RUNNING}
                                            ELSE @ \ {SRV_RUNNING},
                !.srv[s].eweight = w]

\* C34: when set_server_status_up, set_server_status_down or
\* update_server_eweight returns (LC and WRR), whatever change it was called
\* after, prev_state = state and prev_eweight = eweight for that server, and
\* calling any of the three hooks again without another change leaves all
\* the load-balancing state as it is.
C34_Idempotent ==
    \A s \in Srv, running \in BOOLEAN, w \in EWeights, h \in Hooks :
        LET st == CallHook(h, Changed(s, running, w), s) IN
        /\ st.srv[s].prev_state = st.srv[s].state
        /\ st.srv[s].prev_eweight = st.srv[s].eweight
        /\ \A again \in Hooks : CallHook(again, st, s) = st
        /\ \A again \in Hooks : CallHook(again, Cur, s) = Cur

\* a hook has returned after a change of a server's weight or state, and
\* what it saw last is what the server has
C34_Witness ==
    /\ nnotify > 0
    /\ \E s \in Srv :
          /\ srv[s].prev_eweight # srv[s].uweight * BE_WEIGHT_SCALE
          /\ srv[s].prev_eweight = srv[s].eweight
          /\ srv[s].prev_state = srv[s].state
          /\ srv[s].lb_tree # NULLTREE

\* ------------------------------------------------ one call of fwrr_get_next_server
\* the group fwrr_get_next_server walks when it enters its loop
SelectedGroup == IF px.srv_act # 0 THEN "act" ELSE "bck"

EntersLoop == px.srv_act # 0 \/ (px.fbck = NULL /\ px.srv_bck # 0)

\* the usable servers of group g
UsableIn(g) == IF g = "act" THEN UsableActive ELSE UsableBackup

\* the locals of fwrr_get_next_server(px, a) when its loop is left
SelectLocals(a) ==
    fwrr_select_loop([st |-> Cur, grp |-> SelectedGroup, srvtoavoid |-> a,
                      switched |-> FALSE, avoided |-> NULL, full |-> <<>>,
                      srv |-> NULL, fault |-> FALSE])

NoRepeat(q) == \A i, j \in 1..Len(q) : q[i] = q[j] => i = j

\* C35: from every reachable round-robin state and for every avoid hint, a
\* call of fwrr_get_next_server terminates: each turn of its outer loop
\* chains another server of the group, so there are at most as many turns as
\* usable servers plus one, and no division by a zero eweight stops it. The
\* call swaps the init and next trees of the group at most once, and it
\* returns NULL only when the group holds no usable server that is not
\* saturated, no avoided server having been seen.
C35_Terminates ==
    px.algo = BE_LB_ALGO_RR =>
        \A a \in Srv \cup {NULL} :
            LET r == fwrr_get_next_server(Cur, a)
                L == SelectLocals(a)
                g == SelectedGroup
            IN  /\ ~r.fault
                /\ EntersLoop =>
                      /\ NoRepeat(L.full)
                      /\ \A i \in 1..Len(L.full) : L.full[i] \in UsableIn(g)
                      /\ r.ret = NULL => L.avoided = NULL
                /\ r.st.grp[g].init = (IF r.switched THEN grp[g].next ELSE grp[g].init)
                /\ r.st.grp[g].next = (IF r.switched THEN grp[g].init ELSE grp[g].next)
                /\ \A o \in Groups \ {g} :
                      r.st.grp[o].init = grp[o].init /\ r.st.grp[o].next = grp[o].next
                /\ r.ret = NULL => \A s \in UsableIn(g) : ~srv_not_saturated(Cur, s)

\* a call asked to avoid the first server chained the saturated second one
\* and the first, switched the trees, found them empty and returned the
\* avoided server
C35_Witness ==
    /\ px.algo = BE_LB_ALGO_RR
    /\ UsableActive = Srv
    /\ ~srv_not_saturated(Cur, 2)
    /\ last.op = "next" /\ last.avoid = 1 /\ last.ret = 1

\* ------------------------------------------------ the trees of a WRR group
\* the three roots of the group server s belongs to by its backup flag
OwnRoots(s) ==
    IF IsBackup(s) THEN {"bck_curr", "bck_t0", "bck_t1"}
    ELSE {"act_curr", "act_t0", "act_t1"}

\* C38: under round-robin, after every hook call and every
\* fwrr_get_next_server call, whether it skipped saturated or avoided servers
\* or switched the trees, each server that is usable as last notified is
\* linked exactly once, in one of the curr, init or next trees of its own
\* group, which its lb_tree names; so fwrr_update_server_weight never finds a
\* server that was usable and stays usable with lb_tree NULL.
C38_NeverLost ==
    px.algo = BE_LB_ALGO_RR =>
        \A s \in Srv :
            Usable(s) =>
                /\ Links(s) = 1
                /\ LinksIn(OwnRoots(s), s) = 1
                /\ srv[s].lb_tree \in OwnRoots(s)
                /\ CountIn(tree[srv[s].lb_tree], s) = 1
                /\ srv_is_usable(srv[s].prev_state, srv[s].prev_eweight)

\* a call that was asked to avoid the first server and skipped the saturated
\* second one switched the trees and returned the first; both are linked
C38_Witness ==
    /\ px.algo = BE_LB_ALGO_RR
    /\ UsableActive = Srv
    /\ ~srv_not_saturated(Cur, 2)
    /\ last.op = "next" /\ last.avoid = 1 /\ last.ret = 1
    /\ grp["act"].init = "act_t1"
    /\ \A s \in Srv : LinksIn(OwnRoots(s), s) = 1

\* ------------------------------------------------ what get_next_server returns
\* C39: once the hooks have been called for every change of state or
\* eweight, neither fwlc_get_next_server nor fwrr_get_next_server returns a
\* server that is down or has eweight 0, whichever avoid hint is given and
\* whether the server comes from the active tree, the fbck shortcut, the
\* backup tree or the avoid fallback.
C39_ReturnsUsable ==
    /\ \A a \in Srv \cup {NULL} :
          LET r == get_next_server(Cur, a) IN
          r.ret # NULL =>
              /\ SRV_RUNNING \in srv[r.ret].state
              /\ srv[r.ret].eweight > 0
    /\ (last.op = "next" /\ last.ret # NULL) => Usable(last.ret)

\* with the first server down after a hook call, a call asked to avoid the
\* second server returned it, no other being usable
C39_Witness ==
    /\ nnotify > 0
    /\ ~Usable(1) /\ srv[1].uweight > 0
    /\ last.op = "next" /\ last.avoid = 2 /\ last.ret = 2

\* ------------------------------------------------ the key of a WRR node
\* the servers linked in the curr tree of either group
InCurr == LinkedUnder({"act_curr", "bck_curr"})

\* the tie-break term of fwrr_queue_srv for server s as it is now
TieBreak(s) == UnsignedOverScale(SRV_EWGHT_MAX + srv[s].rweight - srv[s].eweight)

\* C37 as claimed: every server in a curr tree has 0 <= rweight < eweight
C37_RweightBelowEweight ==
    \A s \in InCurr : 0 <= srv[s].rweight /\ srv[s].rweight < srv[s].eweight


\* what C37 concludes from it: the tie-break term of every server of a curr
\* tree lies in 0 .. SRV_UWGHT_RANGE - 1, the keys of a curr tree are ordered
\* as the positions are, and no key reaches 2^32
C37_KeyBounds ==
    /\ \A s \in InCurr : 0 <= TieBreak(s) /\ TieBreak(s) < SRV_UWGHT_RANGE
    /\ \A r \in {"act_curr", "bck_curr"} : \A i, j \in 1..Len(tree[r]) :
          srv[tree[r][i].s].npos < srv[tree[r][j].s].npos => tree[r][i].key < tree[r][j].key
    /\ \A r \in {"act_curr", "bck_curr"} : \A i \in 1..Len(tree[r]) :
          tree[r][i].key \div BE_WEIGHT_SCALE < U32_OVER_SCALE

\* the up hook has put back into the curr tree a server whose rweight, kept
\* from before it went down, is not below its new eweight
C37_Witness ==
    /\ last.op = "up"
    /\ last.ret \in InCurr
    /\ srv[last.ret].rweight >= srv[last.ret].eweight

\* ------------------------------------------------ the rotation of WRR
\* the last next_weight selections have been recorded
WindowFull == RndStatic /\ RndTotal > 0 /\ Len(picks) = RndTotal

\* how many of the recorded selections returned server s
Share(s) == Returns(s, 1, Len(picks))

\* C36 as claimed: each usable server is returned exactly eweight times in
\* next_weight consecutive selections
C36_ExactShare ==
    WindowFull => \A s \in ScnSrv : Share(s) = srv[s].eweight

\* C36: with a static pool, no avoid hint and no saturation, repeated calls
\* of fwrr_get_next_server return every usable server again and again, each
\* at least once in any next_weight consecutive selections, and eweight
\* times give or take one in them.
C36_Rotation ==
    /\ [](WindowFull => \A s \in ScnSrv :
                            /\ Usable(s) => Share(s) >= 1
                            /\ Abs(Share(s) - srv[s].eweight) <= 1)
    /\ \A s \in ScnSrv :
          (RndStatic /\ Usable(s)) ~> (last.op = "next" /\ last.ret = s)

\* in the last eight selections of the pool of eweights 2, 3, 3 the first
\* server was returned once and the second four times
C36_Witness ==
    /\ WindowFull /\ RndTotal = 8
    /\ srv[1].eweight = 2 /\ Share(1) = 1
    /\ srv[2].eweight = 3 /\ Share(2) = 4
    /\ srv[3].eweight = 3 /\ Share(3) = 3

\* ------------------------------------------------ the kernel's set of fds
\* the kernel watches the directions of fd whose poll bit is set
KernelFollows(fd) == epoll[fd] = InPollList(fdtab[fd].e)

\* C40 as claimed: between the calls of set, clear, close and _do_poll an
\* open fd is registered with the kernel for a direction exactly when the
\* poll bit of the direction (state WAIT or STOP) is set, and the spec walk
\* never asks the kernel to add an fd that is registered, nor to modify or
\* delete one that is not.
C40_KernelFollowsPollBits ==
    /\ poll.pc = "idle" =>
          \A fd \in Fd : fdtab[fd].state # FD_STCLOSE => KernelFollows(fd)
    /\ hist.refused = {}

\* the write callback of fd 1 closed it and returned 0, the number was given
\* to a new fd, whose write direction has been set and cleared: the spec
\* walk asked the kernel to delete an fd that the kernel does not know
C40_Witness ==
    /\ poll.pc = "walk"
    /\ \E fd \in Fd :
          /\ fdtab[fd].state # FD_STCLOSE
          /\ <<fd, EPOLL_CTL_DEL>> \in hist.refused
          /\ epoll[fd] = {}

\* ------------------------------------------------ the life of a proxy
\* whether operation op may take a proxy from state a to state b, fe telling
\* a frontend
LifeStep(op, a, b, fe) ==
    \/ a = b
    \/ op = "start" /\ a = "PR_STNEW" /\ b = "PR_STREADY"
    \/ op = "manage" /\ a = "PR_STREADY" /\ b = "PR_STFULL"
    \/ op = "manage" /\ a = "PR_STFULL" /\ b = "PR_STREADY"
    \/ /\ op = "pause" /\ fe
       /\ a \notin {"PR_STPAUSED", "PR_STSTOPPED", "PR_STERROR"}
       /\ b \in {"PR_STPAUSED", "PR_STERROR"}
    \/ op = "resume" /\ a = "PR_STPAUSED" /\ b \in {"PR_STREADY", "PR_STERROR"}
    \/ op \in {"stop", "manage"} /\ b = "PR_STSTOPPED"

\* the states a proxy has left and entered in the last step
LifeMoves == {k \in PxIds : proxies.p[k].state # proxies'.p[k].state}
NextOp == IF "op" \in DOMAIN proxies'.run THEN proxies'.run.op ELSE "none"

\* C31: whatever the order of start_proxies, manage_proxy, pause_proxies,
\* resume_proxies, soft_stop and stop_proxy, a proxy only goes from new to
\* ready at a start, between ready and full in manage_proxy, from a state
\* other than paused, stopped and error to paused or error at a pause when it
\* is a frontend, from paused to ready, paused or error at a resume, and from
\* any state to stopped at a stop; nothing leaves stopped, error is only left
\* for stopped, and a pause_proxies in which a proxy fails to pause does a
\* soft stop.
C31_Lifecycle ==
    [][/\ \A k \in PxIds :
             /\ LifeStep(NextOp, proxies.p[k].state, proxies'.p[k].state,
                         proxies.p[k].cap_fe)
             /\ proxies.p[k].state = "PR_STSTOPPED"
                   => proxies'.p[k].state = "PR_STSTOPPED"
             /\ proxies.p[k].state = "PR_STERROR"
                   => proxies'.p[k].state \in {"PR_STERROR", "PR_STSTOPPED"}
       /\ (NextOp = "pause" /\ \E k \in LifeMoves : proxies'.p[k].state # "PR_STPAUSED")
             => /\ proxies'.stopping
                /\ \A k \in PxIds :
                      /\ proxies'.p[k].woken
                      /\ proxies'.p[k].state # "PR_STSTOPPED"
                            => proxies'.p[k].stop_time
                                  = tick_add(proxies.now, proxies.p[k].grace)]_vars

\* a pause has taken a frontend with as many connections as it may have to
\* error and another frontend to paused, hence the soft stop
C31_Witness ==
    /\ LastOp = "pause"
    /\ proxies.stopping
    /\ \E k, j \in PxIds :
          /\ proxies.p[k].feconn >= proxies.p[k].maxconn
          /\ proxies.p[k].state = "PR_STERROR"
          /\ proxies.p[j].state = "PR_STPAUSED"

====
